---- MODULE Spec2Model ----
(***************************************************************************)
(* University Integration Service (ortaizi/spike1).                        *)
(*                                                                         *)
(* Specifications over one set of variables, among them:                   *)
(*   SpecRate  the rate limiter, check_rate_limits, at the granularity of  *)
(*             its awaits on Redis (GET, then SETEX or INCR), run by       *)
(*             concurrent callers (service instances on one Redis) while   *)
(*             time passes;                                                *)
(*   Spec      the job system of one service instance: queue_sync_job, one *)
(*             step per await, and bulk_sync feed the Celery queue, the    *)
(*             worker executes sync_user_data and the validate_credentials *)
(*             task with their retry policy;                               *)
(*   SpecLogin the login executors: try_multiple_urls of the three         *)
(*             institutions' authenticators, one candidate URL per step,   *)
(*             and SmartMoodleValidator._perform_real_login;               *)
(*   SpecClassify  the classifiers of the page reached after the login     *)
(*             form is submitted;                                          *)
(*   SpecResolve   _fill_field, one selector candidate per step;           *)
(*   SpecConfig, SpecLog, SpecExtract, SpecErrors, SpecSurface and         *)
(*             SpecLanding, each introduced where it is defined.           *)
(* A specification leaves the variables of the others at their initial     *)
(* values.                                                                 *)
(***************************************************************************)
EXTENDS Integers, Sequences, FiniteSets, TLC

(***************************************************************************)
(* Bounds of the model.                                                    *)
(***************************************************************************)
NumCallers == 2
TickStep == 30
MaxTime == 60

(***************************************************************************)
(* Program constants.                                                      *)
(***************************************************************************)
RateWindowSeconds == 60

Tenants == {"t1"}
UniversityIds == {"bgu", "tau", "huji"}
UnknownUniversity == "other"

\* _load_university_configs: rate_limits.requests_per_minute per university.
requests_per_minute(u) ==
    CASE u = "bgu" -> 30
      [] u = "tau" -> 25
      [] u = "huji" -> 20

\* university_configs.get(university_id) is None for an unknown id.
HasConfig(u) == u \in UniversityIds

(***************************************************************************)
(* Redis rate keys: rate_limit:{tenant_id}:{university_id}.  An entry is   *)
(* its integer value and the absolute time at which it expires; NoTTL is   *)
(* a key without expiry, NoKey an absent key.                              *)
(***************************************************************************)
NoTTL == -1
RateKeys == Tenants \X UniversityIds
NoKey == [val |-> 0, exp |-> 0]

VARIABLES
    now,        \* the clock, in seconds
    rate,       \* Redis: rate key -> entry
    pair,       \* the (tenant, university) the concurrent callers ask about
    pc,         \* caller -> "idle" | "setex" | "incr" (position in check_rate_limits)
    admits,     \* admissions (calls that returned True) of the last window:
                \* set of [t, n]: n admissions at time t
    importOk,   \* scraping_tasks: the import of the scraper components succeeded
    httpClient, \* service.http_client: "unopened" | "closed"
    jobs,       \* the Celery tasks sent so far, in order of sending
    subs,       \* the responses given to POST /sync so far
    req,        \* the queue_sync_job call suspended at an await, NoReq if none
    serving,    \* "up" once started, then where shutdown() is: "redis_close",
                \* "aclose", "down"
    inst,       \* the login executor at work: "bgu" | "tau" | "huji" | "validator"
    visits,     \* what happened at each candidate URL navigated to, in order
    timedOut,   \* a wait of the last login iteration exceeded its timeout
    firstMaint, \* the page reached from the first candidate URL says maintenance
    ret,        \* what the login executor returned, NoReturn while it runs
    page,       \* the page a classifier is given
    verdict,    \* what the classifier made of it
    cands,      \* the elements the selector candidates of a field match
    field,      \* the field _fill_field fills: "username" | "password"
    pos,        \* the candidate _fill_field looks at next
    acted,      \* the candidates _fill_field has filled, in order
    filled,     \* what _fill_field returned: "none" | "true" | "false"
    pwCands,    \* what the password selectors match, for the Enter fallback
    resolver,   \* whose helper runs: "authenticator" | "dev_validator"
    matches,    \* the page of extract_courses: how the wait for the first
                \* selector ends and what each selector's query gives
    sel,        \* the selector of selectors_to_try queried last, 0 before the first
    elements,   \* the candidate elements that selector matched
    idx,        \* the element extract_courses looks at next
    courses,    \* the names of the courses extracted so far, in order
    kept,       \* the positions of the elements that gave a course
    extractRet, \* what extract_courses gave its caller: "none" | "list" | "raised"
    timeouts,   \* TIMEOUTS of each institution's configuration class
    auths,      \* the authenticators constructed so far, in order
    attempt,    \* the authentication attempt whose output is followed
    logged,     \* the log records and console lines written so far
    returned,   \* what the attempt returned to its caller
    banners,    \* what the error selectors match on the page, in order
    errorCheck, \* what the error check of the classifier gave
    surface,    \* the page a candidate URL led to, before any login
    classes,    \* what each classification of that page gave, in order
    landing     \* the URL at which the form was filled and the URL after submit

callerVars == <<pair, pc, admits>>
jobVars == <<importOk, httpClient, jobs, subs, req, serving>>
loginVars == <<inst, visits, firstMaint, ret, timedOut>>
pageVars == <<page, verdict>>
fieldVars == <<cands, field, pos, acted, filled, pwCands, resolver>>
extractVars == <<matches, sel, elements, idx, courses, kept, extractRet>>
configVars == <<timeouts, auths>>
logVars == <<attempt, logged, returned>>
errorVars == <<banners, errorCheck>>
surfaceVars == <<surface, classes>>
moreVars == <<surfaceVars, landing>>
extraVars == <<extractVars, configVars, logVars, errorVars, moreVars>>
vars == <<now, rate, pair, pc, admits, importOk, httpClient, jobs, subs, req, serving,
          inst, visits, firstMaint, ret, timedOut, page, verdict,
          cands, field, pos, acted, filled, pwCands, resolver,
          matches, sel, elements, idx, courses, kept, extractRet, timeouts, auths, attempt, logged, returned,
          banners, errorCheck, surface, classes, landing>>

Callers == 1..NumCallers

\* No call of queue_sync_job is suspended.
NoReq == [pc |-> "idle", tenant |-> "t1", uni |-> "bgu", answer |-> "200", job |-> 0]

\* The values of the login executor's, the classifier's and the selector
\* resolver's variables before any of them has run.
NoReturn == [success |-> FALSE, error |-> "none", url |-> 0]
NoPage == [errorText |-> FALSE, urlIndicator |-> FALSE, urlLogin |-> FALSE,
           elementIndicator |-> FALSE, keyword |-> FALSE, raises |-> FALSE]
LoginIdle == inst = "bgu" /\ visits = <<>> /\ firstMaint = FALSE /\ ret = NoReturn
    /\ timedOut = FALSE
PageIdle == page = NoPage /\ verdict = "none"
FieldIdle ==
    /\ cands = <<>> /\ field = "username" /\ pos = 1 /\ acted = <<>> /\ filled = "none"
    /\ pwCands = <<>> /\ resolver = "authenticator"
NoMatches == [wait |-> "ok", found |-> <<>>]
ExtractIdle ==
    /\ matches = NoMatches /\ sel = 0
    /\ elements = <<>> /\ idx = 1 /\ courses = <<>> /\ kept = {}
    /\ extractRet = "none"

\* TIMEOUTS of BGUConfig, TAUConfig and HUJIConfig as the class bodies set
\* them, in milliseconds.
LoadedTimeouts(i) ==
    CASE i = "bgu" -> [page_load |-> 30000, network_idle |-> 15000,
                       element_wait |-> 10000, form_submit |-> 20000]
      [] i = "tau" -> [page_load |-> 45000, network_idle |-> 20000,
                       element_wait |-> 15000, form_submit |-> 30000,
                       sso_redirect |-> 60000]
      [] OTHER -> [page_load |-> 60000, network_idle |-> 30000,
                   element_wait |-> 20000, form_submit |-> 45000,
                   sso_redirect |-> 90000, cas_redirect |-> 60000]
ConfigIdle ==
    /\ timeouts = [i \in {"bgu", "tau", "huji"} |-> LoadedTimeouts(i)]
    /\ auths = <<>>
NoAttempt == [who |-> "none", university |-> "bgu", username |-> "none",
              password |-> "none", nav |-> "ok", form |-> "ok", site |-> "accepts",
              username_field |-> [at |-> {}, state |-> "hidden"],
              password_field |-> [at |-> {}, state |-> "hidden"]]
NotReturned == [success |-> FALSE, error |-> "none", message_he |-> <<"", "">>,
                message_en |-> <<"", "">>, message |-> <<"", "">>]
LogIdle == attempt = NoAttempt /\ logged = <<>> /\ returned = NotReturned
Unchecked == [found |-> FALSE, message_he |-> "unchecked", message_en |-> "unchecked"]
ErrorIdle == banners = <<>> /\ errorCheck = Unchecked
NoSurface == [url |-> "moodle/login/index.php", content |-> "Log in to the site",
              casField |-> FALSE, ssoButton |-> FALSE, form |-> FALSE]
SurfaceIdle == surface = NoSurface /\ classes = <<>>
NoLanding == [formUrl |-> "none", afterUrl |-> "none"]
MoreIdle == SurfaceIdle /\ landing = NoLanding
ExtraIdle == ExtractIdle /\ ConfigIdle /\ LogIdle /\ ErrorIdle /\ MoreIdle

\* GET key: None (here 0) when absent.
RedisGet(store, k) == store[k].val

\* SETEX key ttl value
RedisSetex(store, k, ttl, v, t) == [store EXCEPT ![k] = [val |-> v, exp |-> t + ttl]]

\* INCR key: creates the key (value 1, no expiry) when absent, keeps the expiry
\* of an existing key.
RedisIncr(store, k) ==
    IF store[k].val = 0
    THEN [store EXCEPT ![k] = [val |-> 1, exp |-> NoTTL]]
    ELSE [store EXCEPT ![k].val = @ + 1]

\* Keys whose expiry has been reached are gone.
RedisExpire(store, t) ==
    [k \in DOMAIN store |->
        IF store[k].val # 0 /\ store[k].exp # NoTTL /\ store[k].exp <= t
        THEN NoKey ELSE store[k]]

\* One more admission at time t.
LogAdmit(log, t) ==
    IF \E e \in log : e.t = t
    THEN {IF e.t = t THEN [e EXCEPT !.n = @ + 1] ELSE e : e \in log}
    ELSE log \cup {[t |-> t, n |-> 1]}

\* Admissions inside the rolling window (t - 60, t].
RECURSIVE SumN(_)
SumN(S) == IF S = {} THEN 0
           ELSE LET e == CHOOSE x \in S : TRUE IN e.n + SumN(S \ {e})
AdmitsInWindow(log, t) == SumN({e \in log : e.t > t - RateWindowSeconds})

RateInit ==
    /\ now = 0
    /\ rate = [k \in RateKeys |-> NoKey]
    /\ pair \in Tenants \X (UniversityIds \cup {UnknownUniversity})
    /\ pc = [c \in Callers |-> "idle"]
    /\ admits = {}
    /\ importOk = TRUE
    /\ httpClient = "unopened"
    /\ jobs = <<>>
    /\ subs = {}
    /\ req = NoReq /\ serving = "up"
    /\ LoginIdle /\ PageIdle /\ FieldIdle /\ ExtraIdle

(***************************************************************************)
(* check_rate_limits, first part: config lookup and redis.get.             *)
(***************************************************************************)
CheckGet(c) ==
    /\ pc[c] = "idle"
    /\ IF ~HasConfig(pair[2])
       THEN UNCHANGED pc
       ELSE LET current_requests == RedisGet(rate, pair)
                max_requests == requests_per_minute(pair[2])
            IN  IF current_requests = 0
                THEN pc' = [pc EXCEPT ![c] = "setex"]
                ELSE IF current_requests >= max_requests
                THEN UNCHANGED pc
                ELSE pc' = [pc EXCEPT ![c] = "incr"]
    /\ UNCHANGED <<now, rate, pair, admits, jobVars>>
    /\ UNCHANGED <<loginVars, pageVars, fieldVars, extraVars>>

\* First request in this window: redis.setex(rate_key, 60, 1); return True.
CheckSetex(c) ==
    /\ pc[c] = "setex"
    /\ rate' = RedisSetex(rate, pair, RateWindowSeconds, 1, now)
    /\ pc' = [pc EXCEPT ![c] = "idle"]
    /\ admits' = LogAdmit(admits, now)
    /\ UNCHANGED <<now, pair, jobVars>>
    /\ UNCHANGED <<loginVars, pageVars, fieldVars, extraVars>>

\* redis.incr(rate_key); return True.
CheckIncr(c) ==
    /\ pc[c] = "incr"
    /\ rate' = RedisIncr(rate, pair)
    /\ pc' = [pc EXCEPT ![c] = "idle"]
    /\ admits' = LogAdmit(admits, now)
    /\ UNCHANGED <<now, pair, jobVars>>
    /\ UNCHANGED <<loginVars, pageVars, fieldVars, extraVars>>

\* A Redis call raises: except Exception -> return False.
CheckError(c) ==
    /\ HasConfig(pair[2])
    /\ pc' = [pc EXCEPT ![c] = "idle"]
    /\ UNCHANGED <<now, rate, pair, admits, jobVars>>
    /\ UNCHANGED <<loginVars, pageVars, fieldVars, extraVars>>

\* Time passes; Redis drops the keys that expire and the admission log keeps
\* the admissions of the last window.
Tick ==
    /\ now + TickStep <= MaxTime
    /\ now' = now + TickStep
    /\ rate' = RedisExpire(rate, now')
    /\ admits' = {e \in admits : e.t > now' - RateWindowSeconds}
    /\ UNCHANGED <<pair, pc, jobVars>>
    /\ UNCHANGED <<loginVars, pageVars, fieldVars, extraVars>>

RateNext ==
    \/ \E c \in Callers : CheckGet(c)
    \/ \E c \in Callers : CheckSetex(c)
    \/ \E c \in Callers : CheckIncr(c)
    \/ \E c \in Callers : CheckError(c)
    \/ Tick

SpecRate == RateInit /\ [][RateNext]_vars

(***************************************************************************)
(* The job system.                                                         *)
(***************************************************************************)
MaxJobs == 1
MaxSuspension == 30
MaxSubs == 2

max_retries == 3
SyncRetryBase == 120
ValidateRetryBase == 60

\* smart_validator.AuthenticationResult
AuthenticationResult ==
    {"SUCCESS", "INVALID_CREDENTIALS", "NETWORK_ERROR", "TIMEOUT",
     "CAPTCHA_REQUIRED", "ACCOUNT_LOCKED", "MAINTENANCE", "UNKNOWN_ERROR"}

\* The results SmartMoodleValidator.validate_credentials constructs.
LoginResults ==
    {"SUCCESS", "INVALID_CREDENTIALS", "NETWORK_ERROR", "TIMEOUT",
     "MAINTENANCE", "UNKNOWN_ERROR"}

\* A localized message: the text is named by what it reports.
Msg(lang, about) == <<lang, about>>
NoMsg == <<"", "">>

\* smart_validator.ValidationResult
ValidationResult(success, result, about, details) ==
    [success |-> success, result |-> result,
     message_he |-> Msg("he", about), message_en |-> Msg("en", about),
     error_details |-> details]
NoOutcome == [success |-> FALSE, result |-> "none",
              message_he |-> NoMsg, message_en |-> NoMsg, error_details |-> "none"]

\* The text of an exception, as far as the retry test reads it:
\* any(t in str(e).lower() for t in ['timeout', 'network', 'connection']).
ExcTexts == {"connection", "other"}
IsRetryableText(text) == text \in {"timeout", "network", "connection"}

(***************************************************************************)
(* SmartMoodleValidator as a context manager: _init_browser may raise at   *)
(* any of its four steps, _cleanup closes page, context and browser inside *)
(* one try and stops at the first close that raises.                       *)
(***************************************************************************)
InitFailures == {"none", "start", "launch", "context", "page"}
CleanupFailures == {"none", "page", "context", "browser"}

\* _init_browser: what has been acquired when it fails at step f ("none": all).
InitAcquired(f) ==
    CASE f = "start" -> {}
      [] f = "launch" -> {"playwright"}
      [] f = "context" -> {"playwright", "browser"}
      [] f = "page" -> {"playwright", "browser", "context"}
      [] OTHER -> {"playwright", "browser", "context", "page"}

\* _cleanup: what has been closed when the close of f raises ("none": all three).
\* The Playwright driver started in _init_browser is never stopped.
CleanupReleased(f) ==
    CASE f = "page" -> {}
      [] f = "context" -> {"page"}
      [] f = "browser" -> {"page", "context"}
      [] OTHER -> {"page", "context", "browser"}

\* scrapers = {'bgu': BGUScraper, 'tau': TAUScraper, 'huji': HUJIScraper}
HasScraper(u) == u \in {"bgu", "tau", "huji"}

\* error_details of the result of SmartMoodleValidator.validate_credentials:
\* str(e) of the exception behind a TIMEOUT (its text names a timeout) or an
\* UNKNOWN_ERROR, None (here "none") for the results built without exception.
LoginDetails(login, text) ==
    CASE login = "TIMEOUT" -> "timeout"
      [] login = "UNKNOWN_ERROR" -> text
      [] OTHER -> "none"

\* scraper.validate_credentials(username, password) of the scraper of u.
\* ok: the import succeeded; otherwise SmartMoodleValidator and
\* ValidationResult are the argument-less fallback classes and constructing
\* either raises TypeError.
\* e: the environment of this run: e.initFail, e.login, e.vclean, and e.vtext,
\* the text of the exception the validator's run raises, if it raises one.
\* Gives: raised (an exception escapes, with its text), the outcome returned,
\* the browser contexts opened and the resources left open.
ScraperValidate(u, ok, e) ==
    IF ~ok
    THEN [raised |-> TRUE, text |-> "other", outcome |-> NoOutcome,
          sessions |-> 0, leaked |-> {}]
    ELSE IF u = "bgu"
    THEN IF e.initFail # "none"
         THEN [raised |-> FALSE, text |-> "none",
               outcome |-> ValidationResult(FALSE, "validation_error", "validation_error",
                                            e.vtext),
               sessions |-> IF "context" \in InitAcquired(e.initFail) THEN 1 ELSE 0,
               leaked |-> InitAcquired(e.initFail)]
         ELSE [raised |-> FALSE, text |-> "none",
               outcome |-> ValidationResult(e.login = "SUCCESS", e.login, e.login,
                                            LoginDetails(e.login, e.vtext)),
               sessions |-> 1,
               leaked |-> InitAcquired("none") \ CleanupReleased(e.vclean)]
    ELSE [raised |-> FALSE, text |-> "none",
          outcome |-> ValidationResult(FALSE, "not_implemented", "not_implemented", "none"),
          sessions |-> 0, leaked |-> {}]

(***************************************************************************)
(* Result dictionaries of the tasks and of extract_user_data.              *)
(***************************************************************************)
NoCounts == <<0, 0, 0>>
CountChoices == {NoCounts, <<2, 1, 3>>}

ResultDict(success, error, he, en, details, counts) ==
    [success |-> success, error |-> error, message_he |-> he, message_en |-> en,
     error_details |-> details, summary |-> counts]
NoResult == ResultDict(FALSE, "none", NoMsg, NoMsg, "none", NoCounts)

\* An event handed to send_notification_event.
Event(type, reason, he, en) ==
    [type |-> type, reason |-> reason, message_he |-> he, message_en |-> en,
     counts |-> NoCounts]

\* A sync.completed event that leaves the counts out.
CompletedEventWithoutCounts(counts) == Event("sync.completed", "none", NoMsg, NoMsg)

\* sync.completed with courses_count, grades_count, assignments_count.
CompletedEvent(counts) ==
    [Event("sync.completed", "none", NoMsg, NoMsg) EXCEPT !.counts = counts]

\* send_data_to_academic_service: the placeholder takes the data and reports
\* success.
SendDataToAcademicService(data) == [success |-> TRUE, handed |-> data.summary]

\* What authenticate_bgu_with_fallback (try_multiple_urls) can return as a
\* failure, and the other ways extract_user_data fails.
ExtractRuns == {"ok", "launch_fail", "NETWORK_ERROR", "INVALID_CREDENTIALS", "nav_fail"}

\* The browser contexts an extraction works with: the one extract_user_data
\* opens for its page, and the one authenticate_bgu_with_fallback opens, logs
\* in with and closes in its finally block.  ContextSteps gives what is done
\* with them, in order, in a run of extract_user_data.
ContextSteps(run) ==
    CASE run = "launch_fail" -> <<>>
      [] run \in {"NETWORK_ERROR", "INVALID_CREDENTIALS"} ->
            << <<"open", "extractor">>, <<"open", "fallback">>,
               <<"close", "fallback">>, <<"close", "extractor">> >>
      [] run = "nav_fail" ->
            << <<"open", "extractor">>, <<"open", "fallback">>,
               <<"login", "fallback">>, <<"close", "fallback">>,
               <<"close", "extractor">> >>
      [] OTHER ->
            << <<"open", "extractor">>, <<"open", "fallback">>,
               <<"login", "fallback">>, <<"close", "fallback">>,
               <<"scrape", "extractor">>, <<"close", "extractor">> >>

\* The state of context c after the first n steps: a login makes an open
\* context authenticated, a close ends it.
RECURSIVE ContextAfter(_, _, _)
ContextAfter(steps, n, c) ==
    IF n = 0 THEN "closed"
    ELSE LET before == ContextAfter(steps, n - 1, c)
         IN  IF steps[n][2] # c THEN before
             ELSE CASE steps[n][1] = "open" -> "open"
                    [] steps[n][1] = "login" ->
                          IF before = "open" THEN "authenticated" ELSE before
                    [] steps[n][1] = "close" -> "closed"
                    [] OTHER -> before

\* The state, at the moment of scraping, of the context whose page is
\* scraped; "none" if no page is scraped.
ScrapedContext(steps) ==
    IF \E n \in 1..Len(steps) : steps[n][1] = "scrape"
    THEN LET n == CHOOSE k \in 1..Len(steps) : steps[k][1] = "scrape"
         IN  ContextAfter(steps, n - 1, steps[n][2])
    ELSE "none"

\* BGUScraper.extract_user_data: every exception is caught and turned into a
\* failure dictionary.  It launches a browser and context of its own and
\* authenticate_bgu_with_fallback launches another; both are closed by their
\* finally and async-with blocks.
ExtractUserData(u, e) ==
    IF u # "bgu"
    THEN [result |-> ResultDict(FALSE, "not_implemented", Msg("he", "not_implemented"),
                                Msg("en", "not_implemented"), "none", NoCounts),
          sessions |-> 0, scraped |-> "none"]
    ELSE CASE e.extract = "launch_fail" ->
                [result |-> ResultDict(FALSE, "exception", Msg("he", "extraction_error"),
                                       Msg("en", "extraction_error"), "none", NoCounts),
                 sessions |-> 0, scraped |-> ScrapedContext(ContextSteps(e.extract))]
           [] e.extract \in {"NETWORK_ERROR", "INVALID_CREDENTIALS"} ->
                [result |-> ResultDict(FALSE, e.extract, Msg("he", e.extract),
                                       Msg("en", e.extract), "none", NoCounts),
                 sessions |-> 2, scraped |-> ScrapedContext(ContextSteps(e.extract))]
           [] e.extract = "nav_fail" ->
                [result |-> ResultDict(FALSE, "exception", Msg("he", "extraction_error"),
                                       Msg("en", "extraction_error"), "none", NoCounts),
                 sessions |-> 2, scraped |-> ScrapedContext(ContextSteps(e.extract))]
           [] OTHER ->
                [result |-> ResultDict(TRUE, "none", Msg("he", "extracted"),
                                       Msg("en", "extracted"), "none", e.counts),
                 sessions |-> 2, scraped |-> ScrapedContext(ContextSteps(e.extract))]

\* What one run of a task body gives the task's outer handler.
Run(raised, text, result, events, auth, extractFailed, sessions, leaked) ==
    [raised |-> raised, text |-> text, result |-> result, events |-> events,
     auth |-> auth, extractFailed |-> extractFailed, sessions |-> sessions,
     leaked |-> leaked, extracted |-> NoCounts, sunk |-> FALSE,
     undelivered |-> {}, progress |-> <<>>, scraped |-> "none"]

\* The percentages sync_async hands to update_progress, in the order of its
\* calls, and the first n of them.
ProgressSteps == <<0, 20, 50, 80, 100>>
Reported(n) == SubSeq(ProgressSteps, 1, n)

\* sync_async between scraper.setup() and the finally block.
\* get_user_credentials is the placeholder that always succeeds.
SyncBody(u, ok, e) ==
    LET v == ScraperValidate(u, ok, e)
    IN  IF v.raised
        THEN \* except Exception: emit sync.failed with str(e), raise e
             [Run(TRUE, v.text, NoResult,
                  <<Event("sync.failed", "exception", Msg("he", "sync_failed"),
                          Msg("en", "sync_failed"))>>,
                  NoOutcome, FALSE, v.sessions, v.leaked)
              EXCEPT !.progress = Reported(2)]
        ELSE IF ~v.outcome.success
        THEN [Run(FALSE, "none",
                  ResultDict(FALSE, "authentication_failed", v.outcome.message_he,
                             v.outcome.message_en, "none", NoCounts),
                  <<Event("sync.failed", "authentication_failed",
                          v.outcome.message_he, v.outcome.message_en)>>,
                  v.outcome, FALSE, v.sessions, v.leaked)
              EXCEPT !.progress = Reported(2)]
        ELSE LET d == ExtractUserData(u, e)
             IN  IF ~d.result.success
                 THEN [Run(FALSE, "none", d.result, <<>>, v.outcome, TRUE,
                           v.sessions + d.sessions, v.leaked)
                       EXCEPT !.progress = Reported(3), !.scraped = d.scraped]
                 ELSE LET academic_result == SendDataToAcademicService(d.result)
                      IN  [Run(FALSE, "none",
                               ResultDict(TRUE, "none", Msg("he", "sync_completed"),
                                          Msg("en", "sync_completed"), "none",
                                          d.result.summary),
                               <<CompletedEvent(d.result.summary)>>,
                               v.outcome, FALSE, v.sessions + d.sessions, v.leaked)
                           EXCEPT !.extracted = d.result.summary,
                                  !.sunk = academic_result.handed = d.result.summary,
                                  !.progress = Reported(5), !.scraped = d.scraped]

\* The emitters of UniversityScraper: update_progress writes to Redis,
\* send_notification_event and send_analytics_event post to their services.
Channels == {"progress", "notification", "analytics"}

\* An emitter that lets the failure of its delivery escape.
EmitPropagating(channel, e) ==
    [raised |-> e.deliver = channel, delivered |-> e.deliver # channel]

\* One call of an emitter: `except Exception` logs the failure and the call
\* returns None.
Emit(channel, e) == [raised |-> FALSE, delivered |-> e.deliver # channel]

\* The emitters sync_async calls on the path that r is the result of:
\* update_progress on every path, send_notification_event where an event is
\* sent, send_analytics_event after sync.completed.
ChannelsUsed(r) ==
    {"progress"}
    \cup (IF r.events # <<>> THEN {"notification"} ELSE {})
    \cup (IF r.sunk THEN {"analytics"} ELSE {})

\* sync_async with its emitters: an exception leaving one of them would reach
\* the except of sync_async, which sends sync.failed and raises it again.
SyncEmits(r, e) ==
    IF \E ch \in ChannelsUsed(r) : Emit(ch, e).raised
    THEN Run(TRUE, "connection", NoResult,
             <<Event("sync.failed", "exception", Msg("he", "sync_failed"),
                     Msg("en", "sync_failed"))>>,
             NoOutcome, FALSE, r.sessions, r.leaked)
    ELSE [r EXCEPT !.undelivered = {ch \in ChannelsUsed(r) : ~Emit(ch, e).delivered}]

\* UniversityScraper.cleanup: redis.close() then http_client.aclose(), unguarded:
\* what stays open when the close of `at` raises.
ScraperCleanupLeak(at) ==
    CASE at = "redis" -> {"redis", "http"}
      [] at = "http" -> {"http"}
      [] OTHER -> {}

\* The finally block of sync_async / validate_async: an exception raised by
\* cleanup replaces the value returned or the exception raised by the body.
WithCleanup(r, e) ==
    IF e.sclean = "none"
    THEN r
    ELSE [r EXCEPT !.raised = TRUE, !.text = e.sctext, !.result = NoResult,
                   !.leaked = @ \cup ScraperCleanupLeak(e.sclean)]

\* The try block of sync_user_data: create_scraper, then asyncio.run(sync_async()).
SyncRun(u, ok, e) ==
    IF ~HasScraper(u)
    THEN Run(TRUE, "other", NoResult, <<>>, NoOutcome, FALSE, 0, {})
    ELSE IF e.setup # "ok"
    THEN Run(TRUE, e.setup, NoResult, <<>>, NoOutcome, FALSE, 0, {})
    ELSE WithCleanup(SyncEmits(SyncBody(u, ok, e), e), e)

\* validate_async between setup and finally, and the try block of the
\* validate_credentials task.
ValidateBody(u, ok, e) ==
    LET v == ScraperValidate(u, ok, e)
    IN  IF v.raised
        THEN Run(TRUE, v.text, NoResult, <<>>, NoOutcome, FALSE, v.sessions, v.leaked)
        ELSE Run(FALSE, "none",
                 ResultDict(v.outcome.success, v.outcome.result, v.outcome.message_he,
                            v.outcome.message_en, v.outcome.error_details, NoCounts),
                 <<>>, v.outcome, FALSE, v.sessions, v.leaked)

ValidateRun(u, ok, e) ==
    IF ~HasScraper(u)
    THEN Run(TRUE, "other", NoResult, <<>>, NoOutcome, FALSE, 0, {})
    ELSE IF e.setup # "ok"
    THEN Run(TRUE, e.setup, NoResult, <<>>, NoOutcome, FALSE, 0, {})
    ELSE WithCleanup(ValidateBody(u, ok, e), e)

\* A retry test that does not look at the number of retries made.
ShouldRetryWithoutLimit(retries, text) == IsRetryableText(text)

\* except Exception of both tasks: retry while retries remain and the text
\* names a timeout, network or connection error; otherwise a task_error result.
ShouldRetry(retries, text) == retries < max_retries /\ IsRetryableText(text)

TaskError(text) ==
    ResultDict(FALSE, "task_error", Msg("he", "task_error"), Msg("en", "task_error"),
               text, NoCounts)

RetryBase(kind) == IF kind = "sync" THEN SyncRetryBase ELSE ValidateRetryBase

\* A retry delay that does not grow.
RetryDelayFlat(kind, retries) == RetryBase(kind)

\* retry_delay = base * (self.request.retries + 1)
RetryDelay(kind, retries) == RetryBase(kind) * (retries + 1)

(***************************************************************************)
(* A Celery task (job): what was asked, where it stands, and what its      *)
(* executions did.                                                         *)
(*   grants    admissions the rate limiter granted for it                  *)
(*   status    "queued" | "retry" (re-queued by self.retry) | "done"       *)
(*   execs     executions started so far                                   *)
(*   auth, extractFailed, text, events, leaked: of the last execution      *)
(*   extracted, sunk: the sizes of the lists the last execution extracted  *)
(*   and whether it handed them to the academic service                    *)
(*   sessions, nEvents: browser contexts opened and terminal events        *)
(*   emitted over all executions; nFailedEvents: the sync.failed ones      *)
(*   undelivered: the emitters whose delivery failed in the last execution *)
(*   progress: the percentages the last execution reported, in order      *)
(*   scraped: the state of the browser context of the scraped page when    *)
(*   the last execution scraped it, "none" if it scraped none              *)
(*   unknownRetries: retries scheduled after an execution whose            *)
(*   authentication ended with UNKNOWN_ERROR                               *)
(*   kwargs: the names of the keyword arguments of the message             *)
(*   failure: the exception that left the task when the worker called it   *)
(***************************************************************************)
\* The keyword arguments of the messages: queue_sync_job sends
\* kwargs={'priority': ...}; bulk_sync and POST /validate-credentials send
\* positional arguments only.
SentKwargs(kind, origin) ==
    IF kind = "sync" /\ origin = "api" THEN {"priority"} ELSE {}

\* The parameters of the task functions, after self.
TaskParams(kind) ==
    IF kind = "sync"
    THEN {"job_id", "user_id", "tenant_id", "university_id", "job_type"}
    ELSE {"credentials", "validation_type"}

\* The worker's call run(*args, **kwargs): a keyword the function does not
\* have raises TypeError before its body starts.
Binds(kind, kwargs) == kwargs \subseteq TaskParams(kind)

NewJob(kind, t, u, origin, grants) ==
    [kind |-> kind, tenant |-> t, uni |-> u, origin |-> origin,
     kwargs |-> SentKwargs(kind, origin), failure |-> "none",
     grants |-> grants, status |-> "queued", retries |-> 0, execs |-> 0,
     retry_delay |-> 0, result |-> NoResult, auth |-> NoOutcome,
     extractFailed |-> FALSE, text |-> "none", events |-> <<>>, nEvents |-> 0,
     nFailedEvents |-> 0,
     sessions |-> 0, leaked |-> {}, extracted |-> NoCounts, sunk |-> FALSE,
     unknownRetries |-> 0, undelivered |-> {}, progress |-> <<>>,
     scraped |-> "none"]

\* The task's outer handler applied to one run of its body.
AfterRun(job, x) ==
    LET ran == [job EXCEPT !.execs = @ + 1, !.auth = x.auth,
                           !.extractFailed = x.extractFailed, !.text = x.text,
                           !.events = x.events, !.nEvents = @ + Len(x.events),
                           !.nFailedEvents =
                               @ + Cardinality({k \in 1..Len(x.events) :
                                                   x.events[k].type = "sync.failed"}),
                           !.sessions = @ + x.sessions, !.leaked = x.leaked,
                           !.extracted = x.extracted, !.sunk = x.sunk,
                           !.undelivered = x.undelivered, !.progress = x.progress,
                           !.scraped = x.scraped]
    IN  IF x.raised
        THEN IF ShouldRetry(job.retries, x.text)
             THEN [ran EXCEPT !.status = "retry", !.retries = @ + 1,
                              !.retry_delay = RetryDelay(job.kind, job.retries),
                              !.unknownRetries =
                                  IF x.auth.result = "UNKNOWN_ERROR" THEN @ + 1 ELSE @]
             ELSE [ran EXCEPT !.status = "done", !.result = TaskError(x.text)]
        ELSE [ran EXCEPT !.status = "done", !.result = x.result]

(***************************************************************************)
(* The environment of one execution: which awaited call fails, and what    *)
(* the university's site answers.                                          *)
(***************************************************************************)
EnvInitFailures == {"launch", "context"}
EnvScraperCleanups ==
    {<<"redis", "connection">>, <<"redis", "other">>, <<"http", "connection">>}

EnvBase == [setup |-> "ok", initFail |-> "none", login |-> "SUCCESS",
            vclean |-> "none", vtext |-> "other", extract |-> "ok", counts |-> <<2, 1, 3>>,
            sclean |-> "none", sctext |-> "none", deliver |-> "ok"]

\* Runs whose final cleanup succeeds.
BodyEnvs ==
    {[EnvBase EXCEPT !.initFail = f, !.vtext = t] :
        f \in EnvInitFailures, t \in ExcTexts}
    \cup {[EnvBase EXCEPT !.login = l] : l \in LoginResults}
    \cup {[EnvBase EXCEPT !.login = "UNKNOWN_ERROR", !.vtext = "connection"]}
    \cup {[EnvBase EXCEPT !.extract = x] : x \in ExtractRuns}
    \cup {[EnvBase EXCEPT !.counts = n] : n \in CountChoices}
    \cup {[EnvBase EXCEPT !.login = l, !.vclean = "context"] :
            l \in {"SUCCESS", "INVALID_CREDENTIALS"}}
    \cup {[EnvBase EXCEPT !.login = l, !.deliver = ch] :
            l \in {"SUCCESS", "INVALID_CREDENTIALS"}, ch \in Channels}

\* Runs in which scraper.setup() or scraper.cleanup() raises.
Envs ==
    BodyEnvs
    \cup {[EnvBase EXCEPT !.setup = t] : t \in ExcTexts}
    \cup {[EnvBase EXCEPT !.login = l, !.sclean = c[1], !.sctext = c[2]] :
            l \in {"SUCCESS", "INVALID_CREDENTIALS", "UNKNOWN_ERROR"},
            c \in EnvScraperCleanups}

(***************************************************************************)
(* POST /sync: queue_sync_job, one step per stretch between its awaits.     *)
(***************************************************************************)
\* validate_tenant_access: `async with self.http_client` enters the client,
\* which httpx allows once; a second entry raises and the handler returns
\* False.  Leaving the block closes the client.
TenantAccess(client, answer) == client = "unopened" /\ answer = "200"

AuthAnswers == {"200", "403", "error"}

\* A queue_sync_job that sends the task although the limiter denied it.
QueueOutcomeSendsDenied(tenantOk, rateOk, sendOk, metaOk) ==
    IF ~tenantOk THEN [status |-> "403", sent |-> FALSE]
    ELSE IF ~rateOk THEN [status |-> "429", sent |-> TRUE]
    ELSE IF ~sendOk THEN [status |-> "500", sent |-> FALSE]
    ELSE IF ~metaOk THEN [status |-> "500", sent |-> TRUE]
    ELSE [status |-> "queued", sent |-> TRUE]

\* The response of queue_sync_job and whether the task was sent.
QueueOutcome(tenantOk, rateOk, sendOk, metaOk) ==
    IF ~tenantOk THEN [status |-> "403", sent |-> FALSE]
    ELSE IF ~rateOk THEN [status |-> "429", sent |-> FALSE]
    ELSE IF ~sendOk THEN [status |-> "500", sent |-> FALSE]
    ELSE IF ~metaOk THEN [status |-> "500", sent |-> TRUE]
    ELSE [status |-> "queued", sent |-> TRUE]

Response(t, u, status, job, authorized) ==
    [tenant |-> t, status |-> status, job |-> job, authorized |-> authorized]

Record(sub) == IF sub \in subs THEN subs ELSE subs \cup {sub}
CanRecord(sub) == sub \in subs \/ Cardinality(subs) < MaxSubs

\* The bounds of the model leave room for the task and the response of the
\* call that is under way.
Sending == req.pc \in {"post", "get", "setex", "incr"}
Room == MaxJobs - Len(jobs) - (IF Sending THEN 1 ELSE 0)
SubsRoom == MaxSubs - Cardinality(subs) - (IF req.pc # "idle" THEN 1 ELSE 0)

\* The suspended call ends: it answers with out.status, having sent its task
\* if out.sent.
Finish(out) ==
    /\ jobs' = IF out.sent /\ req.job = 0
               THEN Append(jobs, NewJob("sync", req.tenant, req.uni, "api", 1))
               ELSE jobs
    /\ subs' = Record(Response(req.tenant, req.uni, out.status,
                               IF ~out.sent THEN 0
                               ELSE IF req.job = 0 THEN Len(jobs) + 1 ELSE req.job,
                               req.answer = "200"))
    /\ req' = NoReq

\* POST /sync -> queue_sync_job, up to its first await: validate_tenant_access
\* enters the client and posts to the Auth service.  Entering a client that
\* is open or closed raises at once, the handler returns False and the call
\* answers 403 without having awaited anything.
QueueSyncJob(t, u, answer) ==
    /\ serving = "up"
    /\ IF httpClient = "unopened"
       THEN /\ Room >= 1 /\ SubsRoom >= 1
            /\ httpClient' = "open"
            /\ req' = [pc |-> "post", tenant |-> t, uni |-> u, answer |-> answer,
                       job |-> 0]
            /\ UNCHANGED <<jobs, subs>>
       ELSE LET out == QueueOutcome(TenantAccess(httpClient, answer), TRUE, TRUE, TRUE)
                sub == Response(t, u, out.status, 0, answer = "200")
            IN  /\ sub \in subs \/ SubsRoom >= 1
                /\ subs' = Record(sub)
                /\ UNCHANGED <<httpClient, jobs, req>>
    /\ UNCHANGED <<now, rate, callerVars, importOk, serving>>
    /\ UNCHANGED <<loginVars, pageVars, fieldVars, extraVars>>

\* client.post returns or raises; leaving `async with` closes the client.
\* With access granted check_rate_limits starts: the lookup of the
\* university's configuration, then the await of redis.get.
TenantAnswered ==
    /\ req.pc = "post"
    /\ httpClient' = "closed"
    /\ IF ~TenantAccess("unopened", req.answer)
       THEN Finish(QueueOutcome(FALSE, TRUE, TRUE, TRUE))
       ELSE IF ~HasConfig(req.uni)
       THEN Finish(QueueOutcome(TRUE, FALSE, TRUE, TRUE))
       ELSE /\ req' = [req EXCEPT !.pc = "get"]
            /\ UNCHANGED <<jobs, subs>>
    /\ UNCHANGED <<now, rate, callerVars, importOk, serving>>
    /\ UNCHANGED <<loginVars, pageVars, fieldVars, extraVars>>

\* redis.get(rate_key) answers: the call goes on to setex, to incr, or is
\* denied; a get that raises denies too.
RateGet(redisOk) ==
    /\ req.pc = "get"
    /\ LET k == <<req.tenant, req.uni>>
           current_requests == RedisGet(rate, k)
       IN  IF ~redisOk
           THEN Finish(QueueOutcome(TRUE, FALSE, TRUE, TRUE))
           ELSE IF current_requests = 0
           THEN req' = [req EXCEPT !.pc = "setex"] /\ UNCHANGED <<jobs, subs>>
           ELSE IF current_requests >= requests_per_minute(req.uni)
           THEN Finish(QueueOutcome(TRUE, FALSE, TRUE, TRUE))
           ELSE req' = [req EXCEPT !.pc = "incr"] /\ UNCHANGED <<jobs, subs>>
    /\ UNCHANGED <<now, rate, callerVars, importOk, httpClient, serving>>
    /\ UNCHANGED <<loginVars, pageVars, fieldVars, extraVars>>

\* redis.setex(rate_key, 60, 1) or redis.incr(rate_key) answers and
\* check_rate_limits returns True; send_task follows without an await, then
\* the call awaits the setex of job_metadata.
RateWrite(redisOk, sendOk) ==
    /\ req.pc \in {"setex", "incr"}
    /\ LET k == <<req.tenant, req.uni>>
           out == QueueOutcome(TRUE, redisOk, sendOk, TRUE)
       IN  /\ rate' = IF ~redisOk THEN rate
                      ELSE IF req.pc = "setex"
                      THEN RedisSetex(rate, k, RateWindowSeconds, 1, now)
                      ELSE RedisIncr(rate, k)
           /\ IF out.status = "queued"
              THEN /\ jobs' = Append(jobs, NewJob("sync", req.tenant, req.uni, "api", 1))
                   /\ req' = [req EXCEPT !.pc = "meta", !.job = Len(jobs) + 1]
                   /\ UNCHANGED subs
              ELSE Finish(out)
    /\ UNCHANGED <<now, callerVars, importOk, httpClient, serving>>
    /\ UNCHANGED <<loginVars, pageVars, fieldVars, extraVars>>

\* redis.setex(job_metadata) answers: the call returns 'queued', or 500 when
\* it raised, the task having been sent.
StoreMetadata(metaOk) ==
    /\ req.pc = "meta"
    /\ Finish(QueueOutcome(TRUE, TRUE, TRUE, metaOk))
    /\ UNCHANGED <<now, rate, callerVars, importOk, httpClient, serving>>
    /\ UNCHANGED <<loginVars, pageVars, fieldVars, extraVars>>

\* shutdown_event -> service.shutdown(), up to its first await: redis.close().
\* The server runs it once no request is under way and serves none after it.
Shutdown ==
    /\ serving = "up" /\ req.pc = "idle"
    /\ serving' = "redis_close"
    /\ UNCHANGED <<now, rate, callerVars, importOk, httpClient, jobs, subs, req>>
    /\ UNCHANGED <<loginVars, pageVars, fieldVars, extraVars>>

\* redis.close() answers: shutdown() goes on to await http_client.aclose(),
\* or, when the close raised, logs the exception and returns with the client
\* as it was.
RedisClosed(redisOk) ==
    /\ serving = "redis_close"
    /\ serving' = IF redisOk THEN "aclose" ELSE "down"
    /\ UNCHANGED <<now, rate, callerVars, importOk, httpClient, jobs, subs, req>>
    /\ UNCHANGED <<loginVars, pageVars, fieldVars, extraVars>>

\* http_client.aclose() answers and shutdown() returns.
ClientClosed ==
    /\ serving = "aclose"
    /\ serving' = "down"
    /\ httpClient' = "closed"
    /\ UNCHANGED <<now, rate, callerVars, importOk, jobs, subs, req>>
    /\ UNCHANGED <<loginVars, pageVars, fieldVars, extraVars>>

\* The bulk_sync task: one sync_user_data task per user id, sent without
\* asking the rate limiter; a send that raises is recorded and skipped.
\* user_ids is modelled by its length; `failing` are the positions whose
\* send_task raises.
RECURSIVE BulkJobs(_, _, _, _)
BulkJobs(t, u, n, failing) ==
    IF n = 0 THEN <<>>
    ELSE LET rest == BulkJobs(t, u, n - 1, failing)
         IN  IF n \in failing THEN rest
             ELSE rest \o <<NewJob("sync", t, u, "bulk", 0)>>

BulkSync(t, u, n, failing) ==
    /\ n <= Room
    /\ jobs' = jobs \o BulkJobs(t, u, n, failing)
    /\ UNCHANGED <<now, rate, callerVars, importOk, httpClient, subs, req, serving>>
    /\ UNCHANGED <<loginVars, pageVars, fieldVars, extraVars>>

\* POST /validate-credentials: the validation task is sent unconditionally.
SubmitValidation(t, u, sendOk) ==
    /\ serving = "up"
    /\ Room >= 1
    /\ jobs' = IF sendOk THEN Append(jobs, NewJob("validate", t, u, "api", 0))
               ELSE jobs
    /\ UNCHANGED <<now, rate, callerVars, importOk, httpClient, subs, req, serving>>
    /\ UNCHANGED <<loginVars, pageVars, fieldVars, extraVars>>

\* The call of a task whose message has a keyword argument the function
\* lacks: the TypeError leaves the task, whose try block was never entered;
\* nothing is reported, emitted, retried or returned.
Unbound(job) ==
    [job EXCEPT !.status = "done", !.execs = @ + 1, !.failure = "TypeError"]

\* A worker executes a queued task: sync_user_data or validate_credentials.
RunTask(j, e) ==
    /\ jobs[j].status \in {"queued", "retry"}
    /\ LET x == IF jobs[j].kind = "sync"
                THEN SyncRun(jobs[j].uni, importOk, e)
                ELSE ValidateRun(jobs[j].uni, importOk, e)
       IN  jobs' = [jobs EXCEPT ![j] = IF Binds(jobs[j].kind, jobs[j].kwargs)
                                       THEN AfterRun(jobs[j], x)
                                       ELSE Unbound(jobs[j])]
    /\ UNCHANGED <<now, rate, callerVars, importOk, httpClient, subs, req, serving>>
    /\ UNCHANGED <<loginVars, pageVars, fieldVars, extraVars>>

\* Redis outlives the service and is shared by its instances: at start a rate
\* key is absent, one short of the ceiling, or at the ceiling, with
\* MaxSuspension seconds of its window left.
RateFills == {"empty", "last", "full"}
FilledRate(fill) ==
    [k \in RateKeys |->
        CASE fill = "empty" -> NoKey
          [] fill = "last" -> [val |-> requests_per_minute(k[2]) - 1,
                               exp |-> MaxSuspension]
          [] OTHER -> [val |-> requests_per_minute(k[2]), exp |-> MaxSuspension]]

\* Time passes while a call of queue_sync_job is suspended, here up to
\* MaxSuspension seconds.  The job system reads the clock and the rate keys
\* nowhere else, and what time did to the keys before the call arrived is
\* Init's choice of the key.
ClockTick == req.pc # "idle" /\ now < MaxSuspension /\ Tick

Init ==
    /\ now = 0
    /\ \E fill \in RateFills : rate = FilledRate(fill)
    /\ pair = <<"t1", "bgu">>
    /\ pc = [c \in Callers |-> "idle"]
    /\ admits = {}
    /\ importOk \in BOOLEAN
    /\ httpClient = "unopened"
    /\ jobs = <<>>
    /\ subs = {}
    /\ req = NoReq /\ serving = "up"
    /\ LoginIdle /\ PageIdle /\ FieldIdle /\ ExtraIdle

Next ==
    \/ \E t \in Tenants, u \in UniversityIds \cup {UnknownUniversity},
          answer \in AuthAnswers :
            QueueSyncJob(t, u, answer)
    \/ TenantAnswered
    \/ \E redisOk \in BOOLEAN : RateGet(redisOk)
    \/ \E redisOk, sendOk \in BOOLEAN : RateWrite(redisOk, sendOk)
    \/ \E metaOk \in BOOLEAN : StoreMetadata(metaOk)
    \/ Shutdown
    \/ \E redisOk \in BOOLEAN : RedisClosed(redisOk)
    \/ ClientClosed
    \/ ClockTick
    \/ \E t \in Tenants, u \in UniversityIds \cup {UnknownUniversity},
          n \in 1..MaxJobs, failing \in {{}, {1}} :
            BulkSync(t, u, n, failing)
    \/ \E t \in Tenants, u \in UniversityIds \cup {UnknownUniversity},
          sendOk \in BOOLEAN :
            SubmitValidation(t, u, sendOk)
    \/ \E j \in 1..Len(jobs), e \in Envs : RunTask(j, e)

Spec == Init /\ [][Next]_vars

\* A worker takes every task that waits in the queue, a retried one after its
\* countdown: an execution that stays possible is eventually run.
Waiting(j) == j <= Len(jobs) /\ jobs[j].status \in {"queued", "retry"}
Executed(j) ==
    j <= Len(jobs) /\ j <= Len(jobs') /\ jobs'[j].execs = jobs[j].execs + 1

\* Weak fairness of the executions of each task, WF_vars(\E e : RunTask(j, e)),
\* written out: RunTask(j, e) is enabled exactly when task j waits, and its
\* steps are the steps that count an execution of j.
WorkerFairness ==
    \A j \in 1..MaxJobs :
        []<>(~Waiting(j)) \/ []<><<Executed(j)>>_vars

(***************************************************************************)
(* The Celery worker alone.  The worker is a process of its own: it takes   *)
(* from the broker the messages the service and bulk_sync_users sent and    *)
(* shares nothing else with them.  Its queue starts with one message as a   *)
(* sender leaves it: sync_user_data sent by queue_sync_job (with kwargs    *)
(* priority) or by bulk_sync_users, or validate_credentials.               *)
(***************************************************************************)
SentTasks ==
    {NewJob("sync", t, u, "api", 1) :
        t \in Tenants, u \in UniversityIds \cup {UnknownUniversity}}
    \cup {NewJob("sync", t, u, "bulk", 0) :
            t \in Tenants, u \in UniversityIds \cup {UnknownUniversity}}
    \cup {NewJob("validate", t, u, "api", 0) :
            t \in Tenants, u \in UniversityIds \cup {UnknownUniversity}}

WorkerInit ==
    /\ now = 0
    /\ rate = FilledRate("empty")
    /\ pair = <<"t1", "bgu">>
    /\ pc = [c \in Callers |-> "idle"]
    /\ admits = {}
    /\ importOk \in BOOLEAN
    /\ httpClient = "unopened"
    /\ \E task \in SentTasks : jobs = <<task>>
    /\ subs = {}
    /\ req = NoReq /\ serving = "up"
    /\ LoginIdle /\ PageIdle /\ FieldIdle /\ ExtraIdle

WorkerNext == \E j \in 1..Len(jobs), e \in Envs : RunTask(j, e)

SpecWorker == WorkerInit /\ [][WorkerNext]_vars

SpecWorkerFair == WorkerInit /\ [][WorkerNext]_vars /\ WorkerFairness

(***************************************************************************)
(* The classifiers of the page reached after the login form is submitted.  *)
(* A page is described by what the classifiers read from it:               *)
(*   errorText         _check_for_errors finds an error message            *)
(*   urlIndicator      the URL contains one of SUCCESS_INDICATORS          *)
(*   urlLogin          the URL contains 'login' (HUJI: 'login', 'cas' or   *)
(*                     'auth')                                             *)
(*   elementIndicator  a success-indicator selector matches an element     *)
(*   keyword           the content contains a dashboard keyword            *)
(*   raises            reading the page raises                             *)
(***************************************************************************)
Institutions == {"bgu", "tau", "huji"}
Executors == Institutions \cup {"validator"}

Pages ==
    [errorText : BOOLEAN, urlIndicator : BOOLEAN, urlLogin : BOOLEAN,
     elementIndicator : BOOLEAN, keyword : BOOLEAN, raises : BOOLEAN]

\* A classifier that looks at the URL before it looks for error messages.
CheckUrlBeforeErrors(i, p) ==
    IF p.raises THEN "raises"
    ELSE IF p.urlIndicator THEN "SUCCESS"
    ELSE IF p.errorText THEN "INVALID_CREDENTIALS"
    ELSE IF ~p.urlLogin THEN "SUCCESS"
    ELSE IF i \in {"tau", "huji"} /\ p.elementIndicator THEN "SUCCESS"
    ELSE "INVALID_CREDENTIALS"

\* BGUAuthenticator / TAUAuthenticator / HUJIAuthenticator
\* ._check_authentication_result; "raises" when the exception escapes it.
CheckAuthenticationResult(i, p) ==
    IF p.raises THEN "raises"
    ELSE IF p.errorText THEN "INVALID_CREDENTIALS"
    ELSE IF p.urlIndicator THEN "SUCCESS"
    ELSE IF ~p.urlLogin THEN "SUCCESS"
    ELSE IF i \in {"tau", "huji"} /\ p.elementIndicator THEN "SUCCESS"
    ELSE "INVALID_CREDENTIALS"

\* SmartMoodleValidator._check_login_result
CheckLoginResult(p) ==
    IF p.raises THEN "UNKNOWN_ERROR"
    ELSE IF p.errorText THEN "INVALID_CREDENTIALS"
    ELSE IF ~p.urlLogin \/ p.elementIndicator \/ p.keyword THEN "SUCCESS"
    ELSE "INVALID_CREDENTIALS"

ClassifyPage(i, p) ==
    IF i = "validator" THEN CheckLoginResult(p) ELSE CheckAuthenticationResult(i, p)

ClassifyInit ==
    /\ now = 0
    /\ rate = [k \in RateKeys |-> NoKey]
    /\ pair = <<"t1", "bgu">>
    /\ pc = [c \in Callers |-> "idle"]
    /\ admits = {}
    /\ importOk = TRUE
    /\ httpClient = "unopened"
    /\ jobs = <<>>
    /\ subs = {}
    /\ req = NoReq /\ serving = "up"
    /\ inst \in Executors /\ visits = <<>> /\ firstMaint = FALSE /\ ret = NoReturn
    /\ timedOut = FALSE
    /\ page \in Pages /\ verdict = "none"
    /\ FieldIdle /\ ExtraIdle

Classify ==
    /\ verdict = "none"
    /\ verdict' = ClassifyPage(inst, page)
    /\ UNCHANGED <<now, rate, callerVars, jobVars, loginVars, page, fieldVars, extraVars>>

SpecClassify == ClassifyInit /\ [][Classify]_vars

(***************************************************************************)
(* The login executors.                                                    *)
(***************************************************************************)
\* len(config.URLS); the validator has the one URL moodle_url + login_path.
NumUrls(i) ==
    CASE i = "bgu" -> 5
      [] i = "tau" -> 5
      [] i = "huji" -> 6
      [] OTHER -> 1

\* What page.goto gives: it raises, returns None, returns a response with
\* status >= 400, with a status below 400 outside 200-299 (304, say), or
\* with a status 200-299.
NavResults == {"raises", "no_response", "http_error", "http_3xx", "ok"}

\* try_multiple_urls goes on to the next URL `if not response or
\* response.status >= 400`.
NavFailures == {"raises", "no_response", "http_error"}

\* _perform_real_login returns NETWORK_ERROR `if not response or not
\* response.ok`: response.ok is a status of 200-299.
ValidatorNavFailures == {"no_response", "http_error", "http_3xx"}

\* What the page shows: a CAS page (HUJI), an SSO page (TAU, HUJI), a page
\* with a visible password field, or none of these.
PageKinds(i) ==
    {"no_form", "form"}
    \cup (IF i \in {"tau", "huji"} THEN {"sso"} ELSE {})
    \cup (IF i = "huji" THEN {"cas"} ELSE {})

\* How filling and submitting the form ends: the wait for the SSO redirect
\* raises, a field or the button is not found, a call raises, or the form
\* is submitted.
FormRuns == {"sso_raises", "FORM_ERROR", "raises", "submitted"}

\* The pages reached after a submitted form that the executors are run on.
LoginPages ==
    {[NoPage EXCEPT !.errorText = TRUE, !.urlLogin = TRUE],
     [NoPage EXCEPT !.urlIndicator = TRUE],
     [NoPage EXCEPT !.urlLogin = TRUE],
     [NoPage EXCEPT !.raises = TRUE]}

\* The pages the validator is run on: these, and pages at a URL with 'login'
\* that show a success element or a dashboard keyword.
ValidatorPages ==
    LoginPages
    \cup {[NoPage EXCEPT !.urlLogin = TRUE, !.elementIndicator = TRUE],
          [NoPage EXCEPT !.urlLogin = TRUE, !.keyword = TRUE]}

\* _attempt_login / _attempt_regular_login: every exception becomes an
\* AUTHENTICATION_ERROR result.
AttemptLogin(i, form, p) ==
    IF form = "FORM_ERROR" THEN "FORM_ERROR"
    ELSE IF form = "raises" THEN "AUTHENTICATION_ERROR"
    ELSE LET c == CheckAuthenticationResult(i, p)
         IN  IF c = "raises" THEN "AUTHENTICATION_ERROR" ELSE c

\* _handle_sso_login, _handle_cas_login
HandleLogin(i, kind, form, p) ==
    IF kind = "sso" /\ form = "sso_raises" THEN "SSO_ERROR"
    ELSE AttemptLogin(i, IF form = "sso_raises" THEN "submitted" ELSE form, p)

\* One iteration of the loop of try_multiple_urls, up to the login result:
\* "continue" for the iterations that go on to the next URL without one.
VisitUrl(i, v) ==
    IF v.nav \in NavFailures THEN "continue"
    ELSE IF v.kind = "no_form" THEN "continue"
    ELSE HandleLogin(i, v.kind, v.form, v.page)

\* A loop that returns on success only and tries the next URL otherwise.
ReturnsOnSuccessOnly(login_result) == login_result = "SUCCESS"

\* A loop that returns whatever the login attempt gave.
ReturnsAnyLoginResult(login_result) == login_result # "continue"

\* The login results after which try_multiple_urls returns.
Returns(login_result) == login_result \in {"SUCCESS", "INVALID_CREDENTIALS"}

\* What is kept of the iteration for URL number url.
VisitTag(v, login_result) ==
    IF v.nav \in NavFailures THEN v.nav
    ELSE IF login_result = "continue" THEN "no_form"
    ELSE login_result
Visit(url, tag) == [url |-> url, tag |-> tag]

\* A loop that skips the candidate after a failed one.
NextUrlSkipping(vs) == IF vs = <<>> THEN 1 ELSE Len(vs) + 2

\* The next index of `for i, url in enumerate(self.config.URLS)`.
NextUrl(vs) == Len(vs) + 1

UrlBase == [nav |-> "ok", maint |-> FALSE, kind |-> "form", form |-> "submitted",
            page |-> NoPage]
UrlEnvs(i) ==
    {[UrlBase EXCEPT !.nav = n] : n \in NavFailures}
    \cup {[UrlBase EXCEPT !.maint = m, !.kind = "no_form"] : m \in BOOLEAN}
    \cup {[UrlBase EXCEPT !.maint = m, !.kind = k, !.form = f] :
            m \in BOOLEAN, k \in PageKinds(i) \ {"no_form"},
            f \in FormRuns \ {"submitted"}}
    \cup {[UrlBase EXCEPT !.maint = m, !.kind = k, !.page = p] :
            m \in BOOLEAN, k \in PageKinds(i) \ {"no_form"}, p \in LoginPages}
    \cup {[UrlBase EXCEPT !.nav = "http_3xx", !.page = p] : p \in LoginPages}

LoginInit ==
    /\ now = 0
    /\ rate = [k \in RateKeys |-> NoKey]
    /\ pair = <<"t1", "bgu">>
    /\ pc = [c \in Callers |-> "idle"]
    /\ admits = {}
    /\ importOk = TRUE
    /\ httpClient = "unopened"
    /\ jobs = <<>>
    /\ subs = {}
    /\ req = NoReq /\ serving = "up"
    /\ inst \in Executors /\ visits = <<>> /\ firstMaint = FALSE /\ ret = NoReturn
    /\ timedOut = FALSE
    /\ PageIdle /\ FieldIdle /\ ExtraIdle

\* HUJI's loop waits for network idle after a good response, inside a bare
\* try/except: when that wait exceeds its 15000 ms the iteration continues.
SwallowedWait(i, v) == i = "huji" /\ v.nav \notin NavFailures

\* Whether one of the waits of the iteration raised: page.goto, the wait for
\* the SSO redirect, or a wait while the form is filled and submitted. A wait
\* that exceeds its timeout raises Playwright's TimeoutError.
WaitRaised(i, v) ==
    \/ v.nav = "raises"
    \/ /\ v.nav \notin NavFailures
       /\ \/ v.kind = "sso" /\ v.form = "sso_raises"
          \/ v.kind # "no_form" /\ v.form = "raises"

\* try_multiple_urls: what it returns after the loop, every URL having failed.
AllUrlsFailed == [success |-> FALSE, error |-> "NETWORK_ERROR", url |-> 0]

\* try_multiple_urls: the iteration for the next candidate URL, and the
\* return after the loop when it was the last one; timeout says whether an
\* exception raised in it is a TimeoutError or, when none is raised, whether
\* the swallowed wait exceeded its timeout.
TryUrl(v, timeout) ==
    /\ inst \in Institutions
    /\ ret = NoReturn
    /\ Len(visits) < NumUrls(inst)
    /\ LET url == NextUrl(visits)
           login_result == VisitUrl(inst, v)
       IN  /\ visits' = Append(visits, Visit(url, VisitTag(v, login_result)))
           /\ firstMaint' = IF visits = <<>> THEN v.nav \notin NavFailures /\ v.maint
                            ELSE firstMaint
           /\ ret' = IF Returns(login_result)
                     THEN [success |-> login_result = "SUCCESS",
                           error |-> IF login_result = "SUCCESS" THEN "none"
                                     ELSE login_result,
                           url |-> url]
                     ELSE IF Len(visits') = NumUrls(inst) THEN AllUrlsFailed
                     ELSE NoReturn
           /\ timedOut' = (timeout /\ (WaitRaised(inst, v) \/ SwallowedWait(inst, v)))
    /\ UNCHANGED <<now, rate, callerVars, jobVars, inst, pageVars, fieldVars, extraVars>>

\* SmartMoodleValidator._perform_real_login under the except of
\* validate_credentials: one URL; an exception with 'timeout' in its text
\* gives TIMEOUT, any other UNKNOWN_ERROR.
PerformRealLogin(v, timeout) ==
    LET raised == IF timeout THEN "TIMEOUT" ELSE "UNKNOWN_ERROR"
    IN  IF v.nav = "raises" THEN raised
        ELSE IF v.nav \in ValidatorNavFailures THEN "NETWORK_ERROR"
        ELSE IF v.load = "raises" THEN raised
        ELSE IF v.maint THEN "MAINTENANCE"
        ELSE IF v.form = "raises" THEN raised
        ELSE CheckLoginResult(v.page)

\* What the site answers the validator; load is how the wait for network
\* idle and the read of the content after a good response end (285-288).
ValidatorBase ==
    [nav |-> "ok", load |-> "ok", maint |-> FALSE, kind |-> "form",
     form |-> "submitted", page |-> NoPage]
ValidatorEnvs ==
    {[ValidatorBase EXCEPT !.nav = n] : n \in NavResults \ {"ok"}}
    \cup {[ValidatorBase EXCEPT !.load = l, !.maint = m, !.form = f] :
            l \in {"ok", "raises"}, m \in BOOLEAN, f \in {"raises", "submitted"}}
    \cup {[ValidatorBase EXCEPT !.page = p] : p \in ValidatorPages}

\* Whether the form is reached: the page has loaded and is no maintenance
\* page.
ValidatorFills(v) == v.nav = "ok" /\ v.load = "ok" /\ ~v.maint

\* Whether the page of a submitted form is handed to _check_login_result.
ValidatorChecks(v) == ValidatorFills(v) /\ v.form = "submitted"

\* The element waits of _check_login_result, each inside a bare try/except:
\* _check_for_errors waits 2000 ms for every error selector up to the one
\* that gives a message, and an element without text ends its wait at once
\* and gives none; then, at a URL with 'login', 3000 ms for every success
\* indicator up to the one that is found.  `missing` says whether one of the
\* selectors gone through matched no element.  Without message, at a URL
\* with 'login' and with no indicator found, every indicator wait exceeds
\* its timeout.  Reading the page raises before any of these waits.
ElementWaitExceeded(p, missing) ==
    IF p.raises THEN FALSE
    ELSE IF ~p.errorText /\ p.urlLogin /\ ~p.elementIndicator THEN TRUE
    ELSE missing

\* validate_credentials of the validator: timeout says whether the exception
\* raised is a TimeoutError or, when none is raised, whether an element wait
\* of _check_login_result found no element.
ValidatorLogin(v, timeout) ==
    /\ inst = "validator"
    /\ ret = NoReturn
    /\ visits = <<>>
    /\ LET r == PerformRealLogin(v, timeout)
       IN  /\ visits' = <<Visit(1, IF v.nav # "ok" THEN v.nav ELSE r)>>
           /\ firstMaint' = (v.nav = "ok" /\ v.maint)
           /\ ret' = [success |-> r = "SUCCESS",
                      error |-> IF r = "SUCCESS" THEN "none" ELSE r, url |-> 1]
           /\ timedOut' =
                  IF ValidatorChecks(v) THEN ElementWaitExceeded(v.page, timeout)
                  ELSE timeout /\ \/ v.nav = "raises"
                                  \/ v.nav = "ok" /\ v.load = "raises"
                                  \/ ValidatorFills(v) /\ v.form = "raises"
    /\ UNCHANGED <<now, rate, callerVars, jobVars, inst, pageVars, fieldVars, extraVars>>

\* The answers that tell the iterations of the loop apart: the maintenance
\* text is recorded for the page of the first candidate URL only.
UrlEnvsAt(i, vs) == {v \in UrlEnvs(i) : v.maint => vs = <<>>}

\* The login run goes on until it has returned.
LoginNext ==
    \/ /\ ret = NoReturn
       /\ \E v \in UrlEnvsAt(inst, visits) :
             \E timeout \in (IF WaitRaised(inst, v) \/ SwallowedWait(inst, v)
                             THEN BOOLEAN ELSE {FALSE}) :
                 TryUrl(v, timeout)
    \/ /\ ret = NoReturn
       /\ \E v \in ValidatorEnvs, timeout \in BOOLEAN : ValidatorLogin(v, timeout)

SpecLogin == LoginInit /\ [][LoginNext]_vars

(***************************************************************************)
(* The selector resolver: _fill_field and _click_login_button go through   *)
(* an ordered list of selector candidates.  What a candidate matches:      *)
(*   "absent"    query_selector gives None                                 *)
(*   "hidden"    an element that is not visible                            *)
(*   "disabled"  a visible element that is not enabled                     *)
(*   "good"      a visible, enabled element that takes the value           *)
(*   "lossy"     a visible, enabled element whose input_value() afterwards *)
(*               differs from the value filled in                          *)
(*   "raising"   a visible, enabled element whose fill() or click() raises *)
(***************************************************************************)
MaxCands == 3
ElementStates == {"absent", "hidden", "disabled", "good", "lossy", "raising"}
Fields == {"username", "password", "button"}

RECURSIVE SeqsUpTo(_, _)
SeqsUpTo(S, n) ==
    IF n = 0 THEN {<<>>}
    ELSE LET shorter == SeqsUpTo(S, n - 1)
         IN  shorter \cup {Append(q, x) : q \in {r \in shorter : Len(r) = n - 1}, x \in S}

\* A resolver that takes any visible element, enabled or not.
IsUsableIfVisible(el) == el \in {"disabled", "good", "lossy", "raising"}

\* element and await element.is_visible() and await element.is_enabled()
IsUsable(el) == el \in {"good", "lossy", "raising"}

\* The helpers: _fill_field and _click_login_button of the authenticators,
\* _try_fill_field and _try_click_button of DevMoodleValidator.
Resolvers == {"authenticator", "dev_validator"}

\* Whether the loop returns True after acting on the element.  The effect
\* of a click is not verified; _fill_field reads input_value() back `if
\* field_name != 'password'`, _try_fill_field reads it back for every field.
Succeeds(who, f, el) ==
    \/ el = "good"
    \/ el = "lossy" /\ f = "button"
    \/ el = "lossy" /\ f = "password" /\ who = "authenticator"

\* What a password selector gives the Enter fallback: no element, an
\* element that takes the key, or a lookup or key press that raises.
MaxEnterCands == 2
EnterStates == {"absent", "present", "raising"}

\* The fallback of _click_login_button: one try block around the loop over
\* the password selectors, so the first exception ends the loop.
RECURSIVE EnterFallback(_)
EnterFallback(cs) ==
    IF cs = <<>> THEN FALSE
    ELSE CASE Head(cs) = "present" -> TRUE
           [] Head(cs) = "raising" -> FALSE
           [] OTHER -> EnterFallback(Tail(cs))

\* The password selectors of the Enter fallback: the list
\* LOGIN_SELECTORS['password_field'] of an authenticator, the one selector
\* config['password_field'] of the dev validator.
EnterCands(who) ==
    IF who = "dev_validator"
    THEN {cs \in SeqsUpTo(EnterStates, MaxEnterCands) : Len(cs) = 1}
    ELSE SeqsUpTo(EnterStates, MaxEnterCands)

ResolveInit ==
    /\ now = 0
    /\ rate = [k \in RateKeys |-> NoKey]
    /\ pair = <<"t1", "bgu">>
    /\ pc = [c \in Callers |-> "idle"]
    /\ admits = {}
    /\ importOk = TRUE
    /\ httpClient = "unopened"
    /\ jobs = <<>>
    /\ subs = {}
    /\ req = NoReq /\ serving = "up"
    /\ LoginIdle /\ PageIdle /\ ExtraIdle
    /\ cands \in SeqsUpTo(ElementStates, MaxCands) \ {<<>>}
    /\ field \in Fields
    /\ pos = 1 /\ acted = <<>> /\ filled = "none"
    /\ resolver \in Resolvers
    /\ pwCands \in IF field = "button" THEN EnterCands(resolver) ELSE {<<>>}

\* One iteration of `for selector in selectors`.
ResolveStep ==
    /\ filled = "none"
    /\ pos <= Len(cands)
    /\ IF IsUsable(cands[pos])
       THEN /\ acted' = Append(acted, pos)
            /\ filled' = IF Succeeds(resolver, field, cands[pos]) THEN "true" ELSE "none"
       ELSE UNCHANGED <<acted, filled>>
    /\ pos' = pos + 1
    /\ UNCHANGED <<now, rate, callerVars, jobVars, loginVars, pageVars, cands, field,
                   pwCands, resolver, extraVars>>

\* After the loop: _fill_field returns False; _click_login_button presses
\* Enter in the first password-field element that exists, visible or not,
\* and returns True, or returns False when there is none or press() raises.
ResolveGiveUp ==
    /\ filled = "none"
    /\ pos > Len(cands)
    /\ filled' = IF field = "button" /\ EnterFallback(pwCands) THEN "enter" ELSE "false"
    /\ UNCHANGED <<now, rate, callerVars, jobVars, loginVars, pageVars,
                   cands, field, pos, acted, pwCands, resolver, extraVars>>

ResolveNext ==
    \/ ResolveStep
    \/ ResolveGiveUp

SpecResolve == ResolveInit /\ [][ResolveNext]_vars

(***************************************************************************)
(* UnifiedMoodleScraper.extract_courses over the elements one selector     *)
(* matched.  A text is the sequence of its characters; the Hebrew labels   *)
(* are written letter by letter in Latin transliteration.                  *)
(***************************************************************************)
MaxElems == 3

\* len(text) > 5
MinNameLength == 6

\* The labels of the `text not in [...]` test:
\* hodaot, pratiyut, haadafot hodaot, klali, ezra, tmicha, meida shimushi,
\* hakursim sheli.
Denylist ==
    { <<"h","w","d","e","w","t">>,
      <<"p","r","T","y","w","t">>,
      <<"h","e","d","p","w","t"," ","h","w","d","e","w","t">>,
      <<"k","l","l","y">>,
      <<"e","z","r","h">>,
      <<"t","m","y","k","h">>,
      <<"m","y","d","e"," ","s","y","m","w","s","y">>,
      <<"h","q","w","r","S","y","m"," ","s","l","y">> }

\* The prefixes of the `not text.startswith(...)` tests:
\* tafrit, hagdarot, rashi, idkunim.
DenyPrefixes ==
    { <<"t","p","r","y","T">>,
      <<"h","g","d","r","w","t">>,
      <<"r","a","s","y">>,
      <<"e","d","k","w","n","y","m">> }

\* str.strip(): leading and trailing white space removed.
RECURSIVE StripLeft(_)
StripLeft(t) ==
    IF t = <<>> THEN <<>>
    ELSE IF Head(t) = " " THEN StripLeft(Tail(t)) ELSE t
RECURSIVE StripRight(_)
StripRight(t) ==
    IF t = <<>> THEN <<>>
    ELSE IF t[Len(t)] = " " THEN StripRight(SubSeq(t, 1, Len(t) - 1)) ELSE t
Strip(t) == StripRight(StripLeft(t))

\* str.startswith
StartsWith(t, prefix) ==
    Len(t) >= Len(prefix) /\ SubSeq(t, 1, Len(prefix)) = prefix

\* A filter without the test of the list of labels.
IsCourseTextWithoutDenylist(text, names) ==
    /\ Len(text) >= MinNameLength
    /\ \A n \in 1..Len(names) : names[n] # text
    /\ \A prefix \in DenyPrefixes : ~StartsWith(text, prefix)

\* The condition under "Filter out non-course elements", on the stripped text.
IsCourseText(text, names) ==
    /\ Len(text) >= MinNameLength
    /\ \A n \in 1..Len(names) : names[n] # text
    /\ text \notin Denylist
    /\ \A prefix \in DenyPrefixes : ~StartsWith(text, prefix)

\* The texts of the candidate elements: none or empty, blank, of 4 and of 5
\* characters, two labels (one padded), a menu entry, two course names (one
\* also padded).
ElementTexts ==
    { <<>>,
      <<" ", " ">>,
      <<"m","a","t","h">>,
      <<"l","o","g","i","c">>,
      <<"h","w","d","e","w","t">>,
      <<" ","p","r","T","y","w","t"," ">>,
      <<"t","p","r","y","T"," ","r","a","s","y">>,
      <<"p","h","y","s","i","c","s">>,
      <<"a","l","g","e","b","r","a">>,
      <<" ","a","l","g","e","b","r","a"," ">> }

\* An element, and the awaited call on it that raises, if any: text_content
\* or the query_selector for its link.
Elements ==
    {[text |-> t, raises |-> "none"] : t \in ElementTexts}
    \cup {[text |-> <<"p","h","y","s","i","c","s">>, raises |-> r] :
            r \in {"text_content", "query_selector"}}

\* selectors_to_try
SelectorsToTry ==
    <<"h5.multiline", "h5[class*=multiline]", ".multiline", "h5", ".course h5",
      ".course-title", ".course-name", ".course-card h5", ".coursebox h5">>
NumSelectors == Len(SelectorsToTry)

\* What query_selector_all gives for one selector: it raises, or the
\* elements the selector matches.
Found(raises, els) == [raises |-> raises, elements |-> els]

\* The pages extract_courses is run on.  The queries of the selectors in
\* `failing` raise; of the others, selector `at` matches `first`, the
\* selector 'h5' matches `later`, and the rest match nothing.
LaterAt == 4
MaxFailingElems == 1
PageMatches(failing, at, first, later) ==
    [k \in 1..NumSelectors |->
        IF k \in failing THEN Found(TRUE, <<>>)
        ELSE IF k = at THEN Found(FALSE, first)
        ELSE IF k = LaterAt THEN Found(FALSE, later)
        ELSE Found(FALSE, <<>>)]
QueryFailures == {{}, {1}, 1..NumSelectors}
LaterMatches ==
    {<<>>,
     <<[text |-> <<"a","l","g","e","b","r","a">>, raises |-> "none"]>>,
     <<[text |-> <<"h","w","d","e","w","t">>, raises |-> "none"],
       [text |-> <<"a","l","g","e","b","r","a">>, raises |-> "none"]>>}
ExtractPages ==
    {PageMatches({}, 1, first, later) :
        first \in SeqsUpTo(Elements, MaxElems), later \in LaterMatches}
    \cup {PageMatches(failing, at, first, later) :
            failing \in QueryFailures, at \in 1..(LaterAt - 1),
            first \in SeqsUpTo(Elements, MaxFailingElems), later \in LaterMatches}

\* A loop that an exception of one element ends.
AbortingAfterFailure(i, n, raised) == IF raised THEN n + 1 ELSE i + 1

\* `except Exception as e: ... continue` inside `for element in elements`:
\* after element i of n the loop takes element i + 1, whether or not the
\* element raised.
AfterElement(i, n, raised) == i + 1

ExtractInit ==
    /\ now = 0
    /\ rate = [k \in RateKeys |-> NoKey]
    /\ pair = <<"t1", "bgu">>
    /\ pc = [c \in Callers |-> "idle"]
    /\ admits = {}
    /\ importOk = TRUE
    /\ httpClient = "unopened"
    /\ jobs = <<>>
    /\ subs = {}
    /\ req = NoReq /\ serving = "up"
    /\ LoginIdle /\ PageIdle /\ FieldIdle /\ ConfigIdle /\ LogIdle /\ ErrorIdle /\ MoreIdle
    /\ matches \in [wait : {"ok", "raises"}, found : ExtractPages]
    /\ sel = 0
    /\ elements = <<>> /\ idx = 1 /\ courses = <<>> /\ kept = {}
    /\ extractRet = "none"

\* The wait for the first selector, whose exception is logged and passed
\* over, is behind; `for selector in selectors_to_try` queries its next
\* selector, at the start or after a selector that gave no course.  A query
\* that raises is logged and the loop continues, as after no element.
NextSelector ==
    /\ extractRet = "none"
    /\ idx > Len(elements)
    /\ courses = <<>>
    /\ sel < NumSelectors
    /\ sel' = sel + 1
    /\ elements' = IF matches.found[sel + 1].raises THEN <<>>
                   ELSE matches.found[sel + 1].elements
    /\ idx' = 1
    /\ UNCHANGED <<now, rate, callerVars, jobVars, loginVars, pageVars, fieldVars,
                   matches, courses, kept, extractRet, configVars, logVars,
                   errorVars, moreVars>>

\* One iteration of `for element in elements`: an exception of the element
\* is logged and the loop continues.
ExtractElement ==
    /\ extractRet = "none"
    /\ idx <= Len(elements)
    /\ LET el == elements[idx]
           text == Strip(el.text)
       IN  IF /\ el.raises # "text_content"
              /\ text # <<>>
              /\ IsCourseText(text, courses)
              /\ el.raises # "query_selector"
           THEN courses' = Append(courses, text) /\ kept' = kept \cup {idx}
           ELSE UNCHANGED <<courses, kept>>
    /\ idx' = AfterElement(idx, Len(elements), elements[idx].raises # "none")
    /\ UNCHANGED <<now, rate, callerVars, jobVars, loginVars, pageVars, fieldVars,
                   matches, sel, elements, extractRet, configVars, logVars, errorVars,
                   moreVars>>

\* `return courses`: after the elements of a selector that gave a course
\* (`if courses: break`), or after the last selector.
ExtractReturn ==
    /\ extractRet = "none"
    /\ idx > Len(elements)
    /\ courses # <<>> \/ sel = NumSelectors
    /\ extractRet' = "list"
    /\ UNCHANGED <<now, rate, callerVars, jobVars, loginVars, pageVars, fieldVars,
                   matches, sel, elements, idx, courses, kept, configVars, logVars,
                   errorVars, moreVars>>

ExtractNext == NextSelector \/ ExtractElement \/ ExtractReturn

SpecExtract == ExtractInit /\ [][ExtractNext]_vars

(***************************************************************************)
(* The configuration classes and the constructors of the authenticators.   *)
(* self.config = TAUConfig() makes an instance without attributes of its   *)
(* own, so self.config.TIMEOUTS is the dictionary of the class, the same   *)
(* object for every authenticator of the institution.                      *)
(***************************************************************************)
MaxAuths == 2
MaxReads == 6

\* The largest power of two that is at most n, for n >= 1.
RECURSIVE Pow2Floor(_)
Pow2Floor(n) == IF n < 2 THEN 1 ELSE 2 * Pow2Floor(n \div 2)

\* int(x * 0.7) in double arithmetic: the double nearest to 0.7 is below 0.7
\* by 0.4 * 2^-53, so when 7x/10 is a whole number n the product is rounded
\* to a double below n exactly when 0.4 * x exceeds the largest power of two
\* that is at most n.
IntSeventyPercent(x) ==
    LET n == (7 * x) \div 10
    IN  IF (7 * x) % 10 = 0 /\ n > 0 /\ 2 * x > 5 * Pow2Floor(n) THEN n - 1 ELSE n

\* int(x * 0.8): the double nearest to 0.8 is above 0.8 and the product is
\* never rounded below a whole 8x/10.
IntEightyPercent(x) == (8 * x) \div 10

\* The `if fast_mode:` loop of TAUAuthenticator.__init__ and
\* HUJIAuthenticator.__init__ on the dictionary t; BGUAuthenticator.__init__
\* has no such loop.
FastMode(i, t) ==
    CASE i = "tau" -> [key \in DOMAIN t |-> IntSeventyPercent(t[key])]
      [] i = "huji" -> [key \in DOMAIN t |-> IntEightyPercent(t[key])]
      [] OTHER -> t

ConfigInit ==
    /\ now = 0
    /\ rate = [k \in RateKeys |-> NoKey]
    /\ pair = <<"t1", "bgu">>
    /\ pc = [c \in Callers |-> "idle"]
    /\ admits = {}
    /\ importOk = TRUE
    /\ httpClient = "unopened"
    /\ jobs = <<>>
    /\ subs = {}
    /\ req = NoReq /\ serving = "up"
    /\ LoginIdle /\ PageIdle /\ FieldIdle /\ ExtractIdle /\ LogIdle /\ ErrorIdle /\ MoreIdle
    /\ ConfigIdle

\* BGUAuthenticator(fast_mode), TAUAuthenticator(fast_mode),
\* HUJIAuthenticator(fast_mode)
Construct(i, fast_mode) ==
    /\ Len(auths) < MaxAuths
    /\ timeouts' = IF fast_mode
                   THEN [timeouts EXCEPT ![i] = FastMode(i, @)]
                   ELSE timeouts
    /\ auths' = Append(auths, [inst |-> i, fast_mode |-> fast_mode,
                               reads |-> <<>>, url |-> 0, at |-> "loop"])
    /\ UNCHANGED <<now, rate, callerVars, jobVars, loginVars, pageVars, fieldVars,
                   extractVars, logVars, errorVars, moreVars>>

\* A wait of try_multiple_urls of authenticator a, given
\* timeout=self.config.TIMEOUTS[key]: the dictionary is read when the wait
\* starts, and the run is suspended until the wait ends.
ReadTimeout(a, key) ==
    Append(auths[a].reads, <<key, timeouts[auths[a].inst][key]>>)

\* The next iteration of the loop: page.goto with TIMEOUTS['page_load'].  The
\* iteration before it has ended without a result that returns.
Navigate(a) ==
    /\ a \in 1..Len(auths)
    /\ auths[a].url < NumUrls(auths[a].inst)
    /\ Len(auths[a].reads) < MaxReads
    /\ auths' = [auths EXCEPT ![a].reads = ReadTimeout(a, "page_load"),
                              ![a].url = @ + 1, ![a].at = "page"]
    /\ UNCHANGED <<now, rate, callerVars, jobVars, loginVars, pageVars, fieldVars,
                   extractVars, timeouts, logVars, errorVars, moreVars>>

\* _handle_sso_login of TAU and HUJI on the page reached: the wait for the
\* redirect with TIMEOUTS['sso_redirect'], before the form is filled.
SsoWait(a) ==
    /\ a \in 1..Len(auths)
    /\ auths[a].inst \in {"tau", "huji"}
    /\ auths[a].at = "page"
    /\ Len(auths[a].reads) < MaxReads
    /\ auths' = [auths EXCEPT ![a].reads = ReadTimeout(a, "sso_redirect"),
                              ![a].at = "sso"]
    /\ UNCHANGED <<now, rate, callerVars, jobVars, loginVars, pageVars, fieldVars,
                   extractVars, timeouts, logVars, errorVars, moreVars>>

\* The wait after the form is submitted: TIMEOUTS['form_submit'], or
\* TIMEOUTS['cas_redirect'] when HUJI's page is a CAS page.
SubmitWait(a, key) ==
    /\ a \in 1..Len(auths)
    /\ \/ key = "form_submit" /\ auths[a].at \in {"page", "sso"}
       \/ key = "cas_redirect" /\ auths[a].inst = "huji" /\ auths[a].at = "page"
    /\ Len(auths[a].reads) < MaxReads
    /\ auths' = [auths EXCEPT ![a].reads = ReadTimeout(a, key), ![a].at = "loop"]
    /\ UNCHANGED <<now, rate, callerVars, jobVars, loginVars, pageVars, fieldVars,
                   extractVars, timeouts, logVars, errorVars, moreVars>>

ConfigNext ==
    \/ \E i \in {"bgu", "tau", "huji"}, fast_mode \in BOOLEAN : Construct(i, fast_mode)
    \/ \E a \in 1..MaxAuths : Navigate(a)
    \/ \E a \in 1..MaxAuths : SsoWait(a)
    \/ \E a \in 1..MaxAuths, key \in {"form_submit", "cas_redirect"} : SubmitWait(a, key)

SpecConfig == ConfigInit /\ [][ConfigNext]_vars

(***************************************************************************)
(* What an authentication attempt writes to the log and to the console.    *)
(* A record is the line of the statement and the values its f-string       *)
(* interpolates.                                                           *)
(***************************************************************************)
Writers == {"task", "smart_validator", "dev_validator", "dev_main"}
Usernames == {"student1", "student2"}
Passwords == {"secret1", "secret2"}
NavRuns == {"ok", "fails"}

\* page.fill (element.fill in the development validator) of the username or
\* password raises, with or without "timeout" in the text of the exception.
FormFills == {"ok", "username_fails", "password_fails",
              "username_timeout", "password_timeout"}

\* The page after the submit: a dashboard URL; the URL of the login form
\* again (moodle_url + login_path, which has no "login" in it) with no error
\* text; or a URL with "login" in it and an error text, a dashboard element
\* or a dashboard keyword.
SiteAnswers == {"accepts", "stays", "rejects", "element", "keyword"}

\* The selectors _try_fill_field and _try_click_button go through: the
\* configured one, then the four of alternative_selectors, whose first is
\* the configured one again.
DevSelectors ==
    <<"config[field_key]", "alternative 1", "alternative 2", "alternative 3",
      "alternative 4">>

\* A field of the login page as the development validator meets it: the
\* positions in DevSelectors of the selectors that find it, and what comes
\* of it: it is hidden or disabled, element.fill raises, input_value() gives
\* another value than the one filled in, or the value is kept.
FieldStates == {"hidden", "raises", "differs", "kept"}
FieldMatches == {{1, 2}, {1, 2, 3}, {3, 4}, {5}}
NoField == [at |-> {}, state |-> "hidden"]
ConfiguredField == [at |-> {1, 2}, state |-> "kept"]
FieldShapes == {NoField} \cup [at : FieldMatches, state : FieldStates]

\* _try_fill_field returns True.
TryFillField(shape) == shape.at # {} /\ shape.state = "kept"

\* Attempts at a supported university: of the task and the smart validator,
\* whose page.fill takes the configured selector; of the development
\* validator, with page.goto raising, with both fields filled, and with a
\* field left unfilled.  And the task and the development validator asked
\* for a university they have no configuration for; the constructor of
\* SmartMoodleValidator raises for such a university.
Attempts ==
    [who : {"task", "smart_validator"}, university : {"bgu"}, username : Usernames,
     password : Passwords, nav : NavRuns, form : FormFills, site : SiteAnswers,
     username_field : {ConfiguredField}, password_field : {ConfiguredField}]
    \cup [who : {"dev_validator", "dev_main"}, university : {"bgu"},
          username : Usernames, password : Passwords, nav : {"fails"}, form : {"ok"},
          site : {"accepts"},
          username_field : {ConfiguredField}, password_field : {ConfiguredField}]
    \cup {a \in [who : {"dev_validator", "dev_main"}, university : {"bgu"},
                  username : Usernames, password : Passwords, nav : {"ok"},
                  form : {"ok"}, site : SiteAnswers,
                  username_field : FieldShapes, password_field : FieldShapes] :
             \/ TryFillField(a.username_field) /\ TryFillField(a.password_field)
             \/ a.site = "accepts" /\ a.password = "secret1"}
    \cup [who : {"task", "dev_validator", "dev_main"}, university : {UnknownUniversity},
          username : Usernames, password : {"secret1"},
          nav : {"ok"}, form : {"ok"}, site : {"accepts"},
          username_field : {ConfiguredField}, password_field : {ConfiguredField}]

LogRecord(line, args) == [line |-> line, args |-> args]

FillRaises(a, f) == a.form \in {f \o "_fails", f \o "_timeout"}
FillTimesOut(a) == a.form \in {"username_timeout", "password_timeout"}

\* _check_login_result: the record of the error text or of the success found.
CheckLoginRecords(a) ==
    << LogRecord(356, {"current_url"}) >>
    \o CASE a.site = "rejects" -> << LogRecord(448, {"error_text"}) >>
         [] a.site \in {"accepts", "stays"} -> << LogRecord(378, {}) >>
         [] a.site = "element" -> << LogRecord(387, {"indicator"}) >>
         [] OTHER -> << LogRecord(397, {}) >>

\* _fill_login_form: a page.fill that raises leaves through the handlers of
\* _fill_login_form and _perform_real_login.
FillLoginRecords(a) ==
    IF FillRaises(a, "username")
    THEN << LogRecord(347, {"exception"}), LogRecord(307, {"exception"}) >>
    ELSE IF FillRaises(a, "password")
    THEN << LogRecord(333, {a.username}),
            LogRecord(347, {"exception"}), LogRecord(307, {"exception"}) >>
    ELSE << LogRecord(333, {a.username}), LogRecord(337, {}), LogRecord(341, {}) >>

\* SmartMoodleValidator.validate_credentials with clear_session,
\* _perform_real_login, _fill_login_form and _check_login_result; opened
\* tells whether the browser is open at the call.  An exception without
\* "timeout" in its text is raised again and recorded at 251.
SmartValidatorRun(a, opened) ==
    << LogRecord(230, {a.username}) >>
    \o (IF opened THEN <<>> ELSE << LogRecord(164, {}) >>)
    \o << LogRecord(211, {}), LogRecord(268, {"login_url"}) >>
    \o (IF a.nav = "fails"
        THEN << LogRecord(246, {"response_time", "result"}) >>
        ELSE FillLoginRecords(a)
             \o (IF a.form = "ok"
                 THEN CheckLoginRecords(a)
                      \o << LogRecord(246, {"response_time", "result"}) >>
                 ELSE IF FillTimesOut(a)
                 THEN << LogRecord(246, {"response_time", "result"}) >>
                 ELSE << LogRecord(251, {"response_time", "exception"}) >>))

\* validate_credentials called on a validator that has no browser open.
SmartValidatorRecords(a) == SmartValidatorRun(a, FALSE)

\* The validate_credentials task: create_scraper, then
\* BGUScraper.validate_credentials with the validator as a context manager
\* (constructor, __aenter__, the validation, 172, __aexit__).
TaskRecords(a) ==
    << LogRecord(455, {a.username, "university_id"}) >>
    \o (IF a.university = "bgu"
        THEN << LogRecord(122, {"name"}), LogRecord(164, {}) >>
             \o SmartValidatorRun(a, TRUE)
             \o << LogRecord(172, {"success"}), LogRecord(180, {}),
                   LogRecord(479, {"success"}) >>
        ELSE << LogRecord(483, {"exception"}) >>)

\* _try_fill_field from selector number k on: a selector that finds nothing
\* (346), an element that is hidden or disabled (344), a fill that raises
\* (349) and a value that is not kept (334, 342) lead to the next selector,
\* a value that is kept (334, 339) ends the loop; 352 after the last
\* selector.
RECURSIVE SelectorRecords(_, _)
SelectorRecords(shape, k) ==
    IF k > Len(DevSelectors) THEN << LogRecord(352, {"field_key"}) >>
    ELSE << LogRecord(323, {"i", "selectors", "selector"}) >>
         \o (IF k \notin shape.at
             THEN << LogRecord(346, {"selector"}) >> \o SelectorRecords(shape, k + 1)
             ELSE << LogRecord(330, {"is_visible", "is_enabled"}) >>
                  \o CASE shape.state = "hidden" ->
                            << LogRecord(344, {"is_visible", "is_enabled"}) >>
                            \o SelectorRecords(shape, k + 1)
                        [] shape.state = "raises" ->
                            << LogRecord(349, {"selector", "exception"}) >>
                            \o SelectorRecords(shape, k + 1)
                        [] shape.state = "differs" ->
                            << LogRecord(334, {"field_key", "selector"}),
                               LogRecord(342, {"current_value"}) >>
                            \o SelectorRecords(shape, k + 1)
                        [] OTHER ->
                            << LogRecord(334, {"field_key", "selector"}),
                               LogRecord(339, {}) >>)

\* _try_fill_field
TryFillRecords(shape) ==
    << LogRecord(311, {"field_key"}), LogRecord(319, {"field_key", "selectors"}) >>
    \o SelectorRecords(shape, 1)

\* _try_click_button on its first selector.
TryClickRecords ==
    << LogRecord(357, {"button_key"}), LogRecord(365, {"button_key", "selectors"}),
       LogRecord(369, {"i", "selectors", "selector"}),
       LogRecord(376, {"is_visible", "is_enabled"}),
       LogRecord(380, {"button_key", "selector"}) >>

\* What the development validator finds after the submit: the URL, one of
\* its success_indicators in the URL, a success element, an error text.
DevFinds(a) ==
    [at |-> CASE a.site = "accepts" -> "dashboard"
              [] a.site = "stays" -> "login_url"
              [] OTHER -> "login",
     url_success |-> a.site \in {"accepts", "stays"},
     element_success |-> a.site = "element", has_login_error |-> a.site = "rejects"]

DevSuccess(a) ==
    (DevFinds(a).url_success \/ DevFinds(a).element_success)
        /\ ~DevFinds(a).has_login_error

\* validate from the wait after the click to its return.
DevResultRecords(a) ==
    << LogRecord(156, {}), LogRecord(160, {"current_url"}), LogRecord(163, {}),
       LogRecord(CASE DevFinds(a).at = "login_url" -> 167
                   [] DevFinds(a).at = "login" -> 169
                   [] OTHER -> 171, {}),
       LogRecord(174, {"success_indicators"}), LogRecord(176, {"url_success"}),
       LogRecord(182, {"page_title"}) >>
    \o (IF DevFinds(a).element_success THEN << LogRecord(197, {"selector"}) >> ELSE <<>>)
    \o (IF DevFinds(a).has_login_error THEN << LogRecord(216, {"error_text"}) >> ELSE <<>>)
    \o << LogRecord(224, {"url_success", "element_success", "has_login_error",
                          "is_success"}),
          LogRecord(IF DevSuccess(a) THEN 227 ELSE 245, {}) >>

\* username_filled and password_filled
DevFilled(a) == TryFillField(a.username_field) /\ TryFillField(a.password_field)

\* DevMoodleValidator.validate: every line it prints; page.goto raising and
\* a field left unfilled go to the handler at 263.
DevValidatorRecords(a) ==
    << LogRecord(66, {}), LogRecord(67, {}), LogRecord(68, {"now"}),
       LogRecord(69, {}), LogRecord(70, {"file"}),
       LogRecord(71, {"university"}), LogRecord(72, {"login_url"}) >>
    \o IF a.university # "bgu" THEN <<>> ELSE
    << LogRecord(112, {a.username}), LogRecord(116, {"login_url", "fast_mode"}) >>
    \o (IF a.nav = "fails"
        THEN << LogRecord(264, {"exception"}) >>
        ELSE << LogRecord(123, {"current_url"}), LogRecord(124, {"page_title"}),
                LogRecord(131, {}), LogRecord(132, {"username_field"}),
                LogRecord(133, {"password_field"}), LogRecord(134, {"submit_button"}),
                LogRecord(137, {a.username}), LogRecord(138, {"selector"}) >>
             \o TryFillRecords(a.username_field)
             \o << LogRecord(141, {}), LogRecord(142, {"selector"}) >>
             \o TryFillRecords(a.password_field)
             \o (IF DevFilled(a)
                 THEN << LogRecord(149, {}) >> \o TryClickRecords
                      \o DevResultRecords(a)
                 ELSE << LogRecord(264, {"exception"}) >>))

\* main of dev_real_validator.py: validate, then the result printed as JSON;
\* the result of a supported university has the key username.
DevMainRecords(a) ==
    DevValidatorRecords(a)
    \o << LogRecord(432, IF a.university = "bgu" THEN {a.username, "result"}
                         ELSE {"result"}) >>

Records(a) ==
    CASE a.who = "task" -> TaskRecords(a)
      [] a.who = "smart_validator" -> SmartValidatorRecords(a)
      [] a.who = "dev_validator" -> DevValidatorRecords(a)
      [] OTHER -> DevMainRecords(a)

\* A result with message_he and message_en.
Bilingual(success, error, about) ==
    [success |-> success, error |-> error, message_he |-> Msg("he", about),
     message_en |-> Msg("en", about), message |-> NoMsg]

\* The dictionary the validate_credentials task returns.
TaskReturns(a) ==
    IF a.university # "bgu" THEN Bilingual(FALSE, "task_error", "task_error")
    ELSE IF a.nav = "fails" THEN Bilingual(FALSE, "NETWORK_ERROR", "NETWORK_ERROR")
    ELSE IF FillTimesOut(a) THEN Bilingual(FALSE, "TIMEOUT", "TIMEOUT")
    ELSE IF a.form # "ok" THEN Bilingual(FALSE, "UNKNOWN_ERROR", "system_error")
    ELSE IF a.site = "rejects"
    THEN Bilingual(FALSE, "INVALID_CREDENTIALS", "INVALID_CREDENTIALS")
    ELSE Bilingual(TRUE, "none", "SUCCESS")

\* The ValidationResult of SmartMoodleValidator.validate_credentials.
SmartValidatorReturns(a) ==
    IF a.nav = "fails" THEN Bilingual(FALSE, "NETWORK_ERROR", "NETWORK_ERROR")
    ELSE IF FillTimesOut(a) THEN Bilingual(FALSE, "TIMEOUT", "TIMEOUT")
    ELSE IF a.form # "ok" THEN Bilingual(FALSE, "UNKNOWN_ERROR", "system_error")
    ELSE IF a.site = "rejects"
    THEN Bilingual(FALSE, "INVALID_CREDENTIALS", "INVALID_CREDENTIALS")
    ELSE Bilingual(TRUE, "none", "SUCCESS")

\* The dictionary of DevMoodleValidator.validate: for a university without
\* configuration it has the keys success, error and message only.
DevValidatorReturns(a) ==
    IF a.university # "bgu"
    THEN [success |-> FALSE, error |-> "UNSUPPORTED_UNIVERSITY", message_he |-> NoMsg,
          message_en |-> NoMsg, message |-> Msg("he", "unsupported_university")]
    ELSE IF a.nav = "fails" \/ ~DevFilled(a)
    THEN Bilingual(FALSE, "VALIDATION_ERROR", "validation_error")
    ELSE IF ~DevSuccess(a)
    THEN Bilingual(FALSE, "INVALID_CREDENTIALS", "INVALID_CREDENTIALS")
    ELSE Bilingual(TRUE, "none", "SUCCESS")

Returned(a) ==
    CASE a.who = "task" -> TaskReturns(a)
      [] a.who = "smart_validator" -> SmartValidatorReturns(a)
      [] OTHER -> DevValidatorReturns(a)

LogInit ==
    /\ now = 0
    /\ rate = [k \in RateKeys |-> NoKey]
    /\ pair = <<"t1", "bgu">>
    /\ pc = [c \in Callers |-> "idle"]
    /\ admits = {}
    /\ importOk = TRUE
    /\ httpClient = "unopened"
    /\ jobs = <<>>
    /\ subs = {}
    /\ req = NoReq /\ serving = "up"
    /\ LoginIdle /\ PageIdle /\ FieldIdle /\ ExtractIdle /\ ConfigIdle /\ ErrorIdle /\ MoreIdle
    /\ attempt \in Attempts
    /\ logged = <<>>
    /\ returned = NotReturned

\* The next logger or print call of the attempt.
WriteLog ==
    /\ attempt # NoAttempt
    /\ Len(logged) < Len(Records(attempt))
    /\ logged' = Append(logged, Records(attempt)[Len(logged) + 1])
    /\ UNCHANGED <<now, rate, callerVars, jobVars, loginVars, pageVars, fieldVars,
                   extractVars, configVars, attempt, returned, errorVars, moreVars>>

\* The return statement of the attempt.
ReturnResult ==
    /\ attempt # NoAttempt
    /\ returned = NotReturned
    /\ Len(logged) = Len(Records(attempt))
    /\ returned' = Returned(attempt)
    /\ UNCHANGED <<now, rate, callerVars, jobVars, loginVars, pageVars, fieldVars,
                   extractVars, configVars, attempt, logged, errorVars, moreVars>>

LogNext == WriteLog \/ ReturnResult

SpecLog == LogInit /\ [][LogNext]_vars

(***************************************************************************)
(* The error check of the classifiers: _check_for_errors of the three      *)
(* authenticators and of SmartMoodleValidator.  A text is named by its     *)
(* content; Words gives the pattern words its lower-case form contains.    *)
(***************************************************************************)
MaxBanners == 2

BannerTexts ==
    { "Invalid username or password", " Invalid username or password ",
      "Scheduled maintenance tonight", "Network error, try again",
      "Your account is locked", "shem mishtamesh o sisma shguyim",
      "hagisha nidcha", " " }

\* text.strip()
StripText(text) ==
    CASE text = " Invalid username or password " -> "Invalid username or password"
      [] text = " " -> ""
      [] OTHER -> text

\* The words of the pattern lists and of the validator's tests that are
\* substrings of text.lower(); shagui is a prefix of shguyim in Hebrew
\* spelling.
Words(text) ==
    CASE StripText(text) = "Invalid username or password" -> {"invalid"}
      [] text = "Network error, try again" -> {"error"}
      [] text = "Your account is locked" -> {"locked"}
      [] text = "shem mishtamesh o sisma shguyim" -> {"shagui", "shguyim"}
      [] text = "hagisha nidcha" -> {"nidcha"}
      [] OTHER -> {}

\* ERROR_TEXT_PATTERNS of BGUConfig, TAUConfig and HUJIConfig, the Hebrew
\* ones transliterated.
ERROR_TEXT_PATTERNS(i) ==
    {"invalid", "incorrect", "shagui", "shguyim", "lo nachon", "eino nachon",
     "kishalon", "nichshal"}
    \cup (IF i \in {"tau", "huji"}
          THEN {"wrong", "failed", "error", "shgia", "lo takin"} ELSE {})
    \cup (IF i = "huji"
          THEN {"denied", "unauthorized", "lo mursheh", "nidcha", "ein harshaa"}
          ELSE {})

\* What an error selector matches: nothing, a hidden element, a lookup that
\* raises, or a visible element with a text.
Banners ==
    {[state |-> s, text |-> " "] : s \in {"absent", "hidden", "raising"}}
    \cup {[state |-> "visible", text |-> t] : t \in BannerTexts}

NoError == [found |-> FALSE, message_he |-> "", message_en |-> ""]

\* INVALID_CREDENTIALS as _check_authentication_result and
\* _check_login_result build it from the message of the error check.
CredentialError(message) ==
    [found |-> TRUE, message_he |-> message,
     message_en |-> "Invalid username or password"]

\* _check_for_errors of BGUAuthenticator, TAUAuthenticator, HUJIAuthenticator
RECURSIVE CheckForErrors(_, _)
CheckForErrors(i, bs) ==
    IF bs = <<>> THEN NoError
    ELSE LET b == Head(bs)
         IN  IF /\ b.state = "visible"
                /\ StripText(b.text) # ""
                /\ Words(b.text) \cap ERROR_TEXT_PATTERNS(i) # {}
             THEN CredentialError(StripText(b.text))
             ELSE CheckForErrors(i, Tail(bs))

\* SmartMoodleValidator._check_for_errors: wait_for_selector raises for an
\* element that is absent or hidden; the first visible element with a text
\* gives a message, translated for the texts it knows.
RECURSIVE ValidatorCheckForErrors(_)
ValidatorCheckForErrors(bs) ==
    IF bs = <<>> THEN NoError
    ELSE LET b == Head(bs)
         IN  IF b.state = "visible" /\ StripText(b.text) # ""
             THEN CredentialError(
                      IF Words(b.text) \cap {"invalid", "incorrect"} # {}
                      THEN "shem mishtamesh o sisma einam nechonim"
                      ELSE IF Words(b.text) \cap {"locked", "suspended"} # {}
                      THEN "hacheshbon nechsam o mushe"
                      ELSE IF "captcha" \in Words(b.text)
                      THEN "nidrash imut captcha"
                      ELSE StripText(b.text))
             ELSE ValidatorCheckForErrors(Tail(bs))

ErrorsInit ==
    /\ now = 0
    /\ rate = [k \in RateKeys |-> NoKey]
    /\ pair = <<"t1", "bgu">>
    /\ pc = [c \in Callers |-> "idle"]
    /\ admits = {}
    /\ importOk = TRUE
    /\ httpClient = "unopened"
    /\ jobs = <<>>
    /\ subs = {}
    /\ req = NoReq /\ serving = "up"
    /\ inst \in Executors /\ visits = <<>> /\ firstMaint = FALSE /\ ret = NoReturn
    /\ timedOut = FALSE
    /\ PageIdle /\ FieldIdle /\ ExtractIdle /\ ConfigIdle /\ LogIdle /\ MoreIdle
    /\ banners \in SeqsUpTo(Banners, MaxBanners) \ {<<>>}
    /\ errorCheck = Unchecked

\* The error check at the head of the classifier.
CheckErrors ==
    /\ errorCheck = Unchecked
    /\ banners # <<>>
    /\ errorCheck' = IF inst = "validator"
                     THEN ValidatorCheckForErrors(banners)
                     ELSE CheckForErrors(inst, banners)
    /\ UNCHANGED <<now, rate, callerVars, jobVars, loginVars, pageVars, fieldVars,
                   extractVars, configVars, logVars, banners, moreVars>>

ErrorsNext == CheckErrors

SpecErrors == ErrorsInit /\ [][ErrorsNext]_vars

\* ---------------------------------------------------------------------
\* The classification of the page a candidate URL leads to, before any
\* login: try_multiple_urls of HUJI (CAS, then SSO, then the regular form),
\* of TAU (SSO, then the form) and of BGU (the form only), and the
\* maintenance test of SmartMoodleValidator._perform_real_login.

MaxClassifications == 2

\* Addresses and page texts, written without the scheme and in lower case
\* where the code lowers them.
SurfaceUrls ==
    {"moodle/login/index.php", "sso.huji.ac.il/cas/login", "moodle/auth/shibboleth/"}
SurfaceContents ==
    {"Log in to the site", "Central Authentication Service", "Single sign on",
     "Site under maintenance",
     "Maintenance: Central Authentication Service", "Maintenance: single sign on"}

\* The indicator strings of the checks that are substrings of url.lower().
UrlParts(url) ==
    CASE url = "sso.huji.ac.il/cas/login" -> {"cas/login", "sso.huji", "sso"}
      [] url = "moodle/auth/shibboleth/" -> {"shibboleth"}
      [] OTHER -> {}

\* The indicator strings of the checks that are substrings of
\* content.lower().
ContentParts(content) ==
    CASE content = "Central Authentication Service" -> {"central authentication"}
      [] content = "Single sign on" -> {"single sign"}
      [] content = "Site under maintenance" -> {"maintenance"}
      [] content = "Maintenance: Central Authentication Service" ->
            {"maintenance", "central authentication"}
      [] content = "Maintenance: single sign on" -> {"maintenance", "single sign"}
      [] OTHER -> {}

Surfaces ==
    [url : SurfaceUrls, content : SurfaceContents, casField : BOOLEAN,
     ssoButton : BOOLEAN, form : BOOLEAN]

\* Whether the first and the second await of page.content() of one
\* classification raise.  HUJI reads the content in _check_cas_page and, when
\* that gives False, again in _check_sso_page; TAU and the validator read it
\* once, BGU not at all.
ContentReads == BOOLEAN \X BOOLEAN

\* The words SmartMoodleValidator looks for in the page content, the Hebrew
\* ones transliterated.
MaintenanceKeywords == {"maintenance", "tachzuka", "zmanit lo zamin"}

\* HUJIAuthenticator._check_cas_page: page.content() is awaited first, and
\* any exception gives False.
CheckCasPage(s, contentRaises) ==
    /\ ~contentRaises
    /\ \/ UrlParts(s.url) \cap {"cas/login", "cas.huji", "sso.huji"} # {}
       \/ s.casField
       \/ ContentParts(s.content) \cap {"cas", "central authentication", "imut merkazi"} # {}

\* _check_sso_page of TAUAuthenticator and HUJIAuthenticator
CheckSsoPage(s, contentRaises) ==
    /\ ~contentRaises
    /\ \/ UrlParts(s.url) \cap {"shibboleth", "saml", "sso"} # {}
       \/ ContentParts(s.content)
              \cap {"shibboleth", "saml", "sso", "single sign", "imut meuchad"} # {}
       \/ s.ssoButton

\* How each executor handles the page: the branch of try_multiple_urls that
\* is taken, or what _perform_real_login does after the page has loaded.
ClassifySurface(i, s, reads) ==
    CASE i = "huji" ->
            IF CheckCasPage(s, reads[1]) THEN "CAS"
            ELSE IF CheckSsoPage(s, reads[2]) THEN "SSO"
            ELSE IF s.form THEN "FORM" ELSE "NO_FORM"
      [] i = "tau" ->
            IF CheckSsoPage(s, reads[1]) THEN "SSO"
            ELSE IF s.form THEN "FORM" ELSE "NO_FORM"
      [] i = "bgu" -> IF s.form THEN "FORM" ELSE "NO_FORM"
      [] OTHER ->
            IF reads[1] THEN "RAISES"
            ELSE IF ContentParts(s.content) \cap MaintenanceKeywords # {}
            THEN "MAINTENANCE" ELSE "FORM"

SurfaceInit ==
    /\ now = 0
    /\ rate = [k \in RateKeys |-> NoKey]
    /\ pair = <<"t1", "bgu">>
    /\ pc = [c \in Callers |-> "idle"]
    /\ admits = {}
    /\ importOk = TRUE
    /\ httpClient = "unopened"
    /\ jobs = <<>>
    /\ subs = {}
    /\ req = NoReq /\ serving = "up"
    /\ inst \in Executors /\ visits = <<>> /\ firstMaint = FALSE /\ ret = NoReturn
    /\ timedOut = FALSE
    /\ PageIdle /\ FieldIdle /\ ExtractIdle /\ ConfigIdle /\ LogIdle /\ ErrorIdle
    /\ surface \in Surfaces
    /\ classes = <<>>
    /\ landing = NoLanding

\* One classification of the page: page.url, page.content(), query_selector
\* and is_visible read the page and leave it as it is; each read of the
\* content answers or raises.
ClassifyAgain(reads) ==
    /\ Len(classes) < MaxClassifications
    /\ classes' = Append(classes, ClassifySurface(inst, surface, reads))
    /\ UNCHANGED <<now, rate, callerVars, jobVars, loginVars, pageVars, fieldVars,
                   extractVars, configVars, logVars, errorVars, surface, landing>>

SurfaceNext == \E reads \in ContentReads : ClassifyAgain(reads)

SpecSurface == SurfaceInit /\ [][SurfaceNext]_vars

\* ---------------------------------------------------------------------
\* The classifiers run on the page that is shown after the form was
\* submitted, with the addresses of BGUConfig and UniversityConfig.BGU.

\* BGUConfig.URLS, in order.
BguUrls ==
    << "https://moodle.bgu.ac.il/moodle/local/mydashboard/",
       "https://moodle.bgu.ac.il/moodle/login/index.php",
       "https://moodle.bgu.ac.il/login/index.php",
       "https://moodle.bgu.ac.il/moodle/",
       "https://moodle.bgu.ac.il/" >>

\* The addresses at which an executor looks for the login form: the
\* candidates of BGUConfig, and moodle_url + login_path of the validator.
EntryUrls(i) ==
    IF i = "bgu" THEN {BguUrls[k] : k \in 1..Len(BguUrls)} ELSE {BguUrls[1]}

\* The addresses the page can be at after the submit.
AfterUrls ==
    {BguUrls[k] : k \in 1..Len(BguUrls)} \cup {"https://moodle.bgu.ac.il/moodle/my/"}

\* The entries of BGUConfig.SUCCESS_INDICATORS that are substrings of url.
UrlIndicators(url) ==
    CASE url = "https://moodle.bgu.ac.il/moodle/local/mydashboard/" ->
            {"/local/mydashboard/"}
      [] url = "https://moodle.bgu.ac.il/moodle/my/" -> {"/my/"}
      [] OTHER -> {}

\* 'login' in current_url.lower()
UrlHasLogin(url) ==
    url \in {"https://moodle.bgu.ac.il/moodle/login/index.php",
             "https://moodle.bgu.ac.il/login/index.php"}

\* The page at url as the classifiers see it.
PageAt(url, errorText, elementIndicator, keyword) ==
    [errorText |-> errorText, urlIndicator |-> UrlIndicators(url) # {},
     urlLogin |-> UrlHasLogin(url), elementIndicator |-> elementIndicator,
     keyword |-> keyword, raises |-> FALSE]

LandingInit ==
    /\ now = 0
    /\ rate = [k \in RateKeys |-> NoKey]
    /\ pair = <<"t1", "bgu">>
    /\ pc = [c \in Callers |-> "idle"]
    /\ admits = {}
    /\ importOk = TRUE
    /\ httpClient = "unopened"
    /\ jobs = <<>>
    /\ subs = {}
    /\ req = NoReq /\ serving = "up"
    /\ inst \in {"bgu", "validator"} /\ visits = <<>> /\ firstMaint = FALSE
    /\ ret = NoReturn /\ timedOut = FALSE
    /\ FieldIdle /\ ExtractIdle /\ ConfigIdle /\ LogIdle /\ ErrorIdle /\ SurfaceIdle
    /\ landing \in [formUrl : EntryUrls(inst), afterUrl : AfterUrls]
    /\ \E errorText, elementIndicator, keyword \in BOOLEAN :
          page = PageAt(landing.afterUrl, errorText, elementIndicator, keyword)
    /\ verdict = "none"

\* _check_authentication_result / _check_login_result after the submit.
ClassifyLanding ==
    /\ verdict = "none"
    /\ verdict' = ClassifyPage(inst, page)
    /\ UNCHANGED <<now, rate, callerVars, jobVars, loginVars, page, fieldVars,
                   extraVars>>

LandingNext == ClassifyLanding

SpecLanding == LandingInit /\ [][LandingNext]_vars

\* C1: for a fixed (tenant, institution) pair and any interleaving of concurrent
\* check_rate_limits calls, the calls that returned true inside any rolling
\* 60-second window never exceed that institution's requests_per_minute.
C1_RollingWindowCeiling ==
    HasConfig(pair[2]) => AdmitsInWindow(admits, now) <= requests_per_minute(pair[2])

JobIds == 1..Len(jobs)
Failed(job) == job.auth # NoOutcome /\ ~job.auth.success

\* C2 (as stated): a submission the limiter denies leaves a job in the queue,
\* to be delivered later; it is never dropped.
C2_DeniedStaysQueued ==
    \A s \in subs : s.status = "429" => s.job \in JobIds

\* C2 (amended): a submission the limiter denies is answered with HTTP 429
\* and no task is sent for it; the submission is dropped.
C2_DeniedIsRejected ==
    \A s \in subs : s.status = "429" => s.job = 0

\* C2 witness: a submission has been answered with 429.
C2_Witness ==
    \E s \in subs : s.status = "429" /\ s.job = 0 /\ jobs = <<>>

\* C3: no execution of sync_user_data starts unless the rate limiter granted
\* an admission for it: a sync job has at most as many executions as grants,
\* however it was queued and retried executions included.
C3_ExecutionNeedsAdmission ==
    \A j \in JobIds :
        jobs[j].kind = "sync" => jobs[j].execs <= jobs[j].grants

\* C4: when the authentication of a sync execution ends with an outcome other
\* than SUCCESS, the job ends failed in that execution, no retry is scheduled,
\* and one sync.failed event carries the outcome's Hebrew and English messages.
C4_AuthFailureIsFinal ==
    \A j \in JobIds :
        (jobs[j].kind = "sync" /\ Failed(jobs[j])) =>
            /\ jobs[j].status = "done"
            /\ ~jobs[j].result.success
            /\ jobs[j].events =
                 <<Event("sync.failed", "authentication_failed",
                         jobs[j].auth.message_he, jobs[j].auth.message_en)>>

\* C5: a job whose authentication fails with NETWORK_ERROR is retried until
\* max_retries retries are used up before it ends failed, and a job whose
\* authentication fails with INVALID_CREDENTIALS is not retried.
C5_NetworkErrorRetried ==
    \A j \in JobIds :
        /\ (jobs[j].status = "done" /\ jobs[j].auth.result = "NETWORK_ERROR")
              => jobs[j].retries = max_retries
        /\ (jobs[j].auth.result = "INVALID_CREDENTIALS" /\ jobs[j].retries = 0)
              => jobs[j].status = "done"

\* C6: an execution whose extraction fails after a successful authentication
\* is eligible for retry: its failure is not the job's final result while
\* retries remain.
C6_ExtractionFailureRetried ==
    \A j \in JobIds :
        (jobs[j].extractFailed /\ jobs[j].status = "done")
            => jobs[j].retries = max_retries

\* C7: the runner retries only failures of kind NETWORK_ERROR, TIMEOUT or
\* UNKNOWN_ERROR: an execution that failed with any other kind never leaves
\* the job waiting for a retry.
C7_RetryOnlyRetryableKinds ==
    \A j \in JobIds :
        (Failed(jobs[j]) /\ jobs[j].auth.result \notin {"NETWORK_ERROR", "TIMEOUT", "UNKNOWN_ERROR"})
            => jobs[j].status # "retry"

\* C8: over its whole lifetime a finished sync or validation job has opened
\* exactly one browser session (browser context).
C8_OneSessionPerJob ==
    \A j \in JobIds : jobs[j].status = "done" => jobs[j].sessions = 1

\* C9: on every exit path of an execution every resource it acquired (page,
\* context, browser, Playwright driver, Redis and HTTP clients) is released.
C9_ResourcesReleased ==
    \A j \in JobIds : jobs[j].execs > 0 => jobs[j].leaked = {}

\* C10: every authentication outcome has a result kind of the closed set
\* AuthenticationResult, and it is a success exactly when the kind is SUCCESS.
C10_OutcomeKindClosed ==
    \A j \in JobIds :
        jobs[j].auth # NoOutcome =>
            /\ jobs[j].auth.result \in AuthenticationResult
            /\ jobs[j].auth.success <=> jobs[j].auth.result = "SUCCESS"

\* C14: the classifier is pessimistic: a page with no success indicator (in
\* its URL, among its elements or in its content) and no error text is
\* classified INVALID_CREDENTIALS, never SUCCESS.
C14_PessimisticClassifier ==
    (/\ verdict # "none"
     /\ ~page.raises /\ ~page.errorText
     /\ ~page.urlIndicator /\ ~page.elementIndicator /\ ~page.keyword)
        => verdict = "INVALID_CREDENTIALS"

\* C11: when the page reached from the first candidate URL is a maintenance
\* page, the login executor has returned MAINTENANCE and has navigated to no
\* other candidate URL.
C11_MaintenanceShortCircuits ==
    firstMaint => (ret.error = "MAINTENANCE" /\ Len(visits) = 1)

\* C12: when the login attempt at a candidate URL yields INVALID_CREDENTIALS,
\* try_multiple_urls of every institution has returned that outcome for that
\* URL and has navigated to no later candidate URL.
C12_InvalidCredentialsShortCircuits ==
    inst \in Institutions =>
        \A k \in 1..Len(visits) :
            visits[k].tag = "INVALID_CREDENTIALS" =>
                /\ k = Len(visits)
                /\ ret = [success |-> FALSE, error |-> "INVALID_CREDENTIALS",
                          url |-> visits[k].url]

\* C12 witness: HUJI's third candidate URL yielded INVALID_CREDENTIALS after
\* two candidates that did not, and candidates remain.
C12_Witness ==
    /\ inst = "huji"
    /\ Len(visits) = 3
    /\ visits[3].tag = "INVALID_CREDENTIALS"
    /\ ret.error = "INVALID_CREDENTIALS"
    /\ Len(visits) < NumUrls(inst)

\* C13: in try_multiple_urls, after a navigation that raises, gives no
\* response or gives a status >= 400, the executor goes on to the next
\* candidate URL in profile order, or, after the last candidate, returns the
\* NETWORK_ERROR result: it returns nothing else and raises nothing.
C13_NavigationFailureFallsThrough ==
    inst \in Institutions =>
        \A k \in 1..Len(visits) :
            /\ visits[k].url = k
            /\ visits[k].tag \in NavFailures =>
                  \/ k < Len(visits)
                  \/ ret = NoReturn
                  \/ /\ k = NumUrls(inst)
                     /\ ret = [success |-> FALSE, error |-> "NETWORK_ERROR", url |-> 0]

\* C13 witness: BGU's first candidate URL answered with an HTTP error and the
\* second candidate was navigated to.
C13_Witness ==
    /\ inst = "bgu"
    /\ Len(visits) >= 2
    /\ visits[1].tag = "http_error"
    /\ visits[2].url = 2

\* C15 (as stated): the resolver acts only on the first candidate that
\* matches a visible and enabled element, never on a later candidate.
C15_OnlyFirstUsable ==
    \A n \in 1..Len(acted) :
        \A k \in 1..(acted[n] - 1) : cands[k] \in {"absent", "hidden", "disabled"}

\* C15 (amended): the resolver goes through the candidates in order and acts
\* on every candidate it reaches that matches a visible and enabled element,
\* never on an absent, hidden or disabled one; the first one it acts on is
\* the first such candidate of the list, it stops at the first one whose
\* fill holds (for an authenticator's password and for the button: that does
\* not raise), and it acts on a later candidate only after every earlier
\* fill or click failed.
C15_FirstUsableThenFallback ==
    /\ \A n \in 1..Len(acted) :
          /\ acted[n] < pos
          /\ cands[acted[n]] \in {"good", "lossy", "raising"}
          /\ n > 1 => /\ acted[n - 1] < acted[n]
                      /\ ~Succeeds(resolver, field, cands[acted[n - 1]])
    /\ \A k \in 1..(pos - 1) :
          cands[k] \in {"good", "lossy", "raising"} => \E n \in 1..Len(acted) : acted[n] = k
    /\ filled = "true" <=> (acted # <<>> /\ Succeeds(resolver, field, cands[acted[Len(acted)]]))
    /\ filled \in {"false", "enter"} =>
          /\ pos = Len(cands) + 1
          /\ \A n \in 1..Len(acted) : ~Succeeds(resolver, field, cands[acted[n]])

\* C15 witness: the first candidate matches a hidden element, the second a
\* visible and enabled one whose value did not hold, and the username was
\* then filled into the third.
C15_Witness ==
    /\ field = "username"
    /\ cands = <<"hidden", "lossy", "good">>
    /\ acted = <<2, 3>>
    /\ filled = "true"

\* C16: a check_rate_limits call that returns False at its ceiling test (or
\* for an unknown institution) leaves the counters unchanged, and after every
\* step the stored counter of the pair is at most the institution's
\* requests_per_minute.
C16_CounterWithinCeiling ==
    [][/\ (\E c \in Callers : CheckGet(c) /\ pc'[c] = "idle") => rate' = rate
       /\ HasConfig(pair[2]) => rate'[pair].val <= requests_per_minute(pair[2])]_vars

\* C17: every rate counter that exists carries the expiry of its window: no
\* interleaving of calls leaves a counter that never expires.
C17_CounterExpires ==
    \A k \in RateKeys : rate[k].val # 0 => rate[k].exp # NoTTL

\* C18: the delay before a retry, when n retries have been used, is the
\* task's base delay times (n + 1), so each delay is longer than the one
\* before, and no job is executed more than max_retries + 1 times.
C18_RetryDelayGrows ==
    [][\A j \in 1..Len(jobs) :
          /\ jobs'[j].execs <= max_retries + 1
          /\ jobs'[j].retries > jobs[j].retries =>
                /\ jobs[j].retries \in 0..(max_retries - 1)
                /\ jobs'[j].retry_delay =
                      (IF jobs[j].kind = "sync" THEN SyncRetryBase ELSE ValidateRetryBase)
                         * (jobs[j].retries + 1)
                /\ jobs'[j].retry_delay > jobs[j].retry_delay]_vars

\* C18 witness: a sync job was executed max_retries + 1 times, the last
\* retry after three times the base delay.
C18_Witness ==
    \E j \in JobIds :
        /\ jobs[j].kind = "sync"
        /\ jobs[j].status = "done"
        /\ jobs[j].execs = max_retries + 1
        /\ jobs[j].retries = max_retries
        /\ jobs[j].retry_delay = 3 * SyncRetryBase

\* C19: a job whose execution fails with UNKNOWN_ERROR is retried at most
\* once.
C19_UnknownErrorRetriedOnce ==
    \A j \in JobIds : jobs[j].unknownRetries <= 1

\* C20: sync.completed is emitted for a job only after the extracted data was
\* handed to the academic service, and the counts of courses, grades and
\* assignments in the event are the sizes of the extracted lists.
C20_CompletedAfterSink ==
    \A j \in JobIds :
        \A n \in 1..Len(jobs[j].events) :
            jobs[j].events[n].type = "sync.completed" =>
                /\ jobs[j].sunk
                /\ jobs[j].events[n].counts = jobs[j].extracted

\* C20 witness: a job emitted sync.completed with the counts 2, 1, 3 of the
\* lists it extracted.
C20_Witness ==
    \E j \in JobIds :
        /\ jobs[j].status = "done"
        /\ jobs[j].extracted = <<2, 1, 3>>
        /\ jobs[j].events = <<CompletedEvent(<<2, 1, 3>>)>>

\* The executions in which the delivery on one channel fails.
C21_FailedDeliveries == {e \in Envs : e.deliver # "ok"}

\* C21: when the delivery of a progress update, a notification event or an
\* analytics event fails during an execution of a sync job, the job is left
\* as the same execution with every delivery succeeding leaves it: same
\* status, result, retries and error text; so a job that would have
\* completed still returns success.  (A task whose call raises TypeError
\* has no execution of its body and attempts no delivery.)
C21_DeliveryFailureKeepsOutcome ==
    [][\A j \in 1..Len(jobs) :
          (/\ jobs[j].kind = "sync"
           /\ Binds(jobs[j].kind, jobs[j].kwargs)
           /\ jobs'[j].execs = jobs[j].execs + 1) =>
              \A e \in C21_FailedDeliveries :
                  RunTask(j, e) =>
                      LET o == AfterRun(jobs[j],
                                        SyncRun(jobs[j].uni, importOk,
                                                [e EXCEPT !.deliver = "ok"]))
                      IN  /\ jobs'[j].status = o.status
                          /\ jobs'[j].result = o.result
                          /\ jobs'[j].retries = o.retries
                          /\ jobs'[j].text = o.text
                          /\ jobs'[j].events = o.events]_vars

\* C21 witness: a sync job completed with success although a delivery failed.
C21_Witness ==
    \E j \in JobIds :
        /\ jobs[j].kind = "sync"
        /\ jobs[j].status = "done"
        /\ jobs[j].undelivered # {}
        /\ jobs[j].result.success
        /\ jobs[j].events = <<CompletedEvent(jobs[j].extracted)>>

ExtractDone == elements # <<>> /\ idx > Len(elements)
TooShort(i) == Len(Strip(elements[i].text)) < 6
Denylisted(i) ==
    \/ Strip(elements[i].text) \in Denylist
    \/ \E prefix \in DenyPrefixes : StartsWith(Strip(elements[i].text), prefix)
Repeated(i) ==
    \E k \in kept : k < i /\ Strip(elements[k].text) = Strip(elements[i].text)

\* C22 (as stated): the course extractor skips exactly the candidate elements
\* whose visible text is below the minimum length or matches the denylist of
\* UI labels.
C22_SkipsOnlyShortOrDenylisted ==
    ExtractDone =>
        \A i \in 1..Len(elements) : i \notin kept <=> (TooShort(i) \/ Denylisted(i))

\* C22 (amended): the course extractor skips exactly the candidate elements
\* whose stripped text has fewer than 6 characters, is a denylist label or
\* starts with a denylist prefix, repeats the name of a course already
\* extracted, or on which a lookup raises; so a container with three
\* candidates, one too short, one denylisted and one that is none of these,
\* yields exactly one record.
C22_SkipsShortDenylistedRepeatedOrFailing ==
    ExtractDone =>
        /\ \A i \in 1..Len(elements) :
              i \notin kept <=>
                  \/ TooShort(i) \/ Denylisted(i) \/ Repeated(i)
                  \/ elements[i].raises # "none"
        /\ Len(courses) = Cardinality(kept)
        /\ (/\ Len(elements) = 3
            /\ \E a, b, c \in 1..3 :
                  /\ {a, b, c} = 1..3
                  /\ TooShort(a) /\ ~Denylisted(a)
                  /\ Denylisted(b) /\ ~TooShort(b)
                  /\ ~TooShort(c) /\ ~Denylisted(c) /\ elements[c].raises = "none")
           => Len(courses) = 1

\* C22 witness: three candidates, the label hodaot, a text of four
\* characters and a course name, gave exactly one record.
C22_Witness ==
    /\ ExtractDone
    /\ Len(elements) = 3
    /\ elements[1].text = <<"h","w","d","e","w","t">>
    /\ elements[2].text = <<"m","a","t","h">>
    /\ elements[3].text = <<"a","l","g","e","b","r","a">>
    /\ courses = << <<"a","l","g","e","b","r","a">> >>

\* C23: institution profile values are read-only after load: no sequence of
\* authenticator constructions and login runs changes an institution's
\* timeouts, so two authenticators of the same institution created at
\* different times work with the same timeout values.
C23_ProfileReadOnly ==
    /\ \A i \in {"bgu", "tau", "huji"} : timeouts[i] = LoadedTimeouts(i)
    /\ \A a, b \in 1..Len(auths) :
          auths[a].inst = auths[b].inst =>
              \A m \in 1..Len(auths[a].reads), n \in 1..Len(auths[b].reads) :
                  auths[a].reads[m][1] = auths[b].reads[n][1]
                      => auths[a].reads[m][2] = auths[b].reads[n][2]

\* C24: no log record and no console line written during an authentication
\* attempt contains the username or the password being used.
C24_NoCredentialsInLog ==
    \A n \in 1..Len(logged) :
        /\ attempt.username \notin logged[n].args
        /\ attempt.password \notin logged[n].args

\* C25: every failure result returned to a caller by the tasks and the
\* validators carries a non-empty Hebrew message (message_he) and a
\* non-empty English message (message_en).
C25_FailureIsBilingual ==
    (returned # NotReturned /\ ~returned.success) =>
        returned.message_he # NoMsg /\ returned.message_en # NoMsg

LoginFailureTags == {"FORM_ERROR", "AUTHENTICATION_ERROR", "SSO_ERROR"}

\* C26: in try_multiple_urls, when the login attempt at a candidate URL ends
\* in a failure other than INVALID_CREDENTIALS and candidate URLs remain,
\* the executor has not returned and goes on to the next URL; the candidate
\* URLs are visited in list order, each at most once.
C26_OtherFailuresFallThrough ==
    inst \in Institutions =>
        /\ Len(visits) <= NumUrls(inst)
        /\ \A k \in 1..Len(visits) :
              /\ visits[k].url = k
              /\ (visits[k].tag \in LoginFailureTags /\ k < NumUrls(inst)) =>
                    \/ k < Len(visits) /\ visits[k + 1].url = k + 1
                    \/ k = Len(visits) /\ ret = NoReturn

\* C26 witness: TAU's first candidate URL ended in a form error, its second
\* in an SSO error, and the third candidate was visited.
C26_Witness ==
    /\ inst = "tau"
    /\ Len(visits) = 3
    /\ visits[1].tag = "FORM_ERROR"
    /\ visits[2].tag = "SSO_ERROR"
    /\ visits[3].url = 3

\* C27: when no username or password candidate can be filled, the outcome
\* of the login run is UNKNOWN_ERROR (with a FORM_ERROR marker), and never
\* INVALID_CREDENTIALS: here for a run of try_multiple_urls whose last login
\* attempt ended with the form error.
C27_FillFailureIsUnknownError ==
    (/\ inst \in Institutions
     /\ ret # NoReturn
     /\ visits # <<>>
     /\ visits[Len(visits)].tag = "FORM_ERROR")
    => /\ ret.error # "INVALID_CREDENTIALS"
       /\ ret.error = "UNKNOWN_ERROR"

\* C28: an error on one selector candidate counts as no match and the next
\* candidate is tried: the helpers report failure only when every candidate
\* has been tried; so _click_login_button with its Enter fallback reports
\* failure only if no button candidate is usable and no password selector
\* matches an element that takes the key.
C28_FailureOnlyAfterEveryCandidate ==
    (field = "button" /\ filled = "false") =>
        /\ \A k \in 1..Len(cands) : ~Succeeds(resolver, field, cands[k])
        /\ \A k \in 1..Len(pwCands) : pwCands[k] # "present"

\* The institutions whose SUCCESS_INDICATORS hold CSS selectors; BGU's list
\* holds URL fragments only.
HasSuccessSelectors(i) == i \in {"tau", "huji"}

\* C29: _check_authentication_result applies its checks in the order error
\* selectors, URL success indicator, left the login surface, success
\* selector, pessimistic default, and the first check that matches decides;
\* so a confirmed credential error gives INVALID_CREDENTIALS even when the
\* URL matches a success indicator.
C29_FirstMatchingCheckDecides ==
    (inst \in Institutions /\ verdict # "none" /\ ~page.raises) =>
        /\ page.errorText => verdict = "INVALID_CREDENTIALS"
        /\ (~page.errorText /\ page.urlIndicator) => verdict = "SUCCESS"
        /\ (~page.errorText /\ ~page.urlIndicator /\ ~page.urlLogin)
              => verdict = "SUCCESS"
        /\ (/\ ~page.errorText /\ ~page.urlIndicator /\ page.urlLogin
            /\ HasSuccessSelectors(inst) /\ page.elementIndicator)
              => verdict = "SUCCESS"
        /\ (/\ ~page.errorText /\ ~page.urlIndicator /\ page.urlLogin
            /\ ~(HasSuccessSelectors(inst) /\ page.elementIndicator))
              => verdict = "INVALID_CREDENTIALS"

\* C29 witness: a page with a confirmed credential error whose URL matches a
\* success indicator was classified INVALID_CREDENTIALS.
C29_Witness ==
    /\ inst = "tau"
    /\ page.errorText /\ page.urlIndicator /\ ~page.raises
    /\ verdict = "INVALID_CREDENTIALS"

\* The patterns that confirm a credential error for an executor; the
\* validator's configuration has none beyond the words it tests for.
ConfirmingPatterns(i) ==
    IF i = "validator" THEN {"invalid", "incorrect"} ELSE ERROR_TEXT_PATTERNS(i)
Confirmed(i, b) ==
    /\ b.state = "visible"
    /\ Words(b.text) \cap ConfirmingPatterns(i) # {}

\* C30: a visible error element whose text matches none of the error-text
\* patterns does not produce INVALID_CREDENTIALS at the error check; one
\* whose text matches a pattern produces INVALID_CREDENTIALS with message_en
\* 'Invalid username or password' and the element's text as message_he.
C30_ErrorCheckConfirmsByPattern ==
    errorCheck # Unchecked =>
        /\ (\A k \in 1..Len(banners) : ~Confirmed(inst, banners[k]))
              => ~errorCheck.found
        /\ \A k \in 1..Len(banners) :
              (/\ Confirmed(inst, banners[k])
               /\ \A m \in 1..(k - 1) : ~Confirmed(inst, banners[m]))
              => /\ errorCheck.found
                 /\ errorCheck.message_en = "Invalid username or password"
                 /\ errorCheck.message_he = StripText(banners[k].text)

\* C31: whenever a network-bound wait of an authentication run (navigation,
\* network-idle, element wait, form submit, SSO redirect) exceeds its timeout,
\* the outcome of the run has result kind TIMEOUT: here for a run whose last
\* iteration had the wait that timed out.
C31_TimeoutGivesTimeoutKind ==
    (ret # NoReturn /\ timedOut) => ret.error = "TIMEOUT"

\* C32: page classification follows the priority order: a page whose text
\* has a maintenance keyword is classified MAINTENANCE whatever else it
\* shows, a page with both CAS and SSO indicators is handled as CAS, and
\* classifying the same page twice gives the same class.
C32_ClassificationPriority ==
    \A k \in 1..Len(classes) :
        /\ ContentParts(surface.content) \cap MaintenanceKeywords # {}
               => classes[k] = "MAINTENANCE"
        /\ (inst = "huji" /\ CheckCasPage(surface, FALSE)
              /\ CheckSsoPage(surface, FALSE)
              /\ ContentParts(surface.content) \cap MaintenanceKeywords = {})
               => classes[k] = "CAS"
        /\ classes[k] = classes[1]

Eligible(i) ==
    /\ elements[i].raises = "none"
    /\ ~TooShort(i) /\ ~Denylisted(i) /\ ~Repeated(i)

\* C33: a failure while extracting one element never aborts extraction: the
\* extractor skips that element and processes every remaining one, so every
\* element that passes the filters and raises nothing has given a course,
\* whatever failed before it; and a failure of the whole record kind (the
\* query of every selector raises) yields an empty list without raising,
\* after every selector was queried.
C33_ElementFailureNeverAborts ==
    /\ extractRet # "raised"
    /\ extractRet = "list" =>
          /\ idx = Len(elements) + 1
          /\ \A i \in 1..Len(elements) : Eligible(i) => i \in kept
          /\ (\A k \in 1..NumSelectors : matches.found[k].raises) => courses = <<>>
          /\ courses = <<>> => sel = NumSelectors

\* C33 witness: the list was returned after the first element raised and a
\* later element gave a course.
C33_Witness ==
    /\ extractRet = "list"
    /\ elements # <<>>
    /\ elements[1].raises # "none"
    /\ \E i \in 2..Len(elements) : i \in kept

\* C34: within one execution of sync_user_data the progress updates are
\* reported in strictly increasing order (0, 20, 50, 80, 100); extraction
\* (reported at 50) does not start before authentication has succeeded, and
\* 100 is reported only when the job completes successfully.
C34_ProgressInOrder ==
    \A j \in JobIds :
        jobs[j].kind = "sync" =>
            /\ \E n \in 0..Len(ProgressSteps) : jobs[j].progress = Reported(n)
            /\ \A k \in 1..Len(jobs[j].progress) :
                  jobs[j].progress[k] >= 50 => jobs[j].auth.success
            /\ (/\ jobs[j].status = "done"
                /\ \E k \in 1..Len(jobs[j].progress) : jobs[j].progress[k] = 100)
                   => jobs[j].result.success

\* C35: for each job at most one terminal event (sync.completed or
\* sync.failed) is emitted over the job's whole lifetime, retried executions
\* included.
C35_AtMostOneTerminalEvent ==
    \A j \in JobIds : jobs[j].kind = "sync" => jobs[j].nEvents <= 1

\* C36: every sync job that ends in failure, whether from missing
\* credentials, authentication failure, extraction failure or an exception,
\* has emitted a sync.failed event before it ends.
C36_FailureEmitsSyncFailed ==
    \A j \in JobIds :
        (jobs[j].kind = "sync" /\ jobs[j].status = "done" /\ ~jobs[j].result.success)
            => jobs[j].nFailedEvents >= 1

\* C37: content extraction runs in the browser session in which the login
\* succeeded: the page that is scraped by extract_user_data belongs to a
\* browser context that is authenticated at that moment.
C37_ScrapesAuthenticatedContext ==
    \A j \in JobIds :
        jobs[j].scraped # "none" => jobs[j].scraped = "authenticated"

\* C38: the authentication classifier never returns SUCCESS when, after the
\* form was submitted, the page is still at the URL at which the login form
\* was found and filled, and no success element (and no dashboard keyword)
\* is present.
C38_NoSuccessWithoutLeavingForm ==
    (/\ verdict # "none"
     /\ landing.afterUrl = landing.formUrl
     /\ ~page.elementIndicator /\ ~page.keyword)
        => verdict # "SUCCESS"

\* C39: the result of the tenant-access check depends only on the Auth
\* service's answer to that request: on one service instance a submission
\* for an authorized tenant is not refused with 403, however many
\* submissions came before it.
C39_AuthorizedTenantAccepted ==
    \A s \in subs : s.authorized => s.status # "403"

\* C40: under fair scheduling every sync job that starts running eventually
\* reaches a terminal state (its task returned a result and no retry is
\* pending): no job is retried more than max_retries times, and every
\* execution either returns a result or schedules a retry.
C40_SyncJobTerminates ==
    /\ [](\A j \in JobIds :
            /\ jobs[j].retries <= max_retries
            /\ jobs[j].execs > 0 => jobs[j].status \in {"retry", "done"})
    /\ \A j \in 1..MaxJobs :
          (j <= Len(jobs) /\ jobs[j].kind = "sync" /\ jobs[j].execs > 0)
              ~> (j <= Len(jobs) /\ jobs[j].status = "done")

\* C40 witness: a sync job reached its terminal state after it had used up
\* all its retries.
C40_Witness ==
    \E j \in JobIds :
        /\ jobs[j].kind = "sync"
        /\ jobs[j].status = "done"
        /\ jobs[j].retries = max_retries
        /\ jobs[j].execs = max_retries + 1
====
